---- MODULE Spec2Model ----
(***************************************************************************)
(* Model of the skill-compiler generate command: the per-artifact cache    *)
(* check of runGenerate (cmd/sc/main.go), the fan-out / barrier / changelog*)
(* sequence of Pipeline.Run (internal/generate/generate.go), the writing   *)
(* of the results and the lockfile update; the plugin registry that turns  *)
(* the spec sources into the IR (internal/ir, internal/plugins); and the   *)
(* diff command, runDiff.                                                  *)
(*                                                                         *)
(* The cache package (HashInput, HashOutput, LockFile) and the helpers     *)
(* LoadPreviousArtifacts / PrependChangelogEntry are called by the source  *)
(* under src/ but their bodies are not part of it; they are modelled from  *)
(* the specification (section 4.3) and marked so in the model map.         *)
(***************************************************************************)
EXTENDS Integers, Sequences, FiniteSets, TLC

(* ------------------------------------------------------------------ *)
(* Bounds of the model                                                 *)
(* ------------------------------------------------------------------ *)

\* number of generate commands in one behaviour
MaxRuns == 1

\* number of edits of the inputs (IR or instruction sections) between commands
MaxEdits == 1

\* runs of sc generate on the fresh project with every artifact enabled
MaxFullRuns == 2

\* runs of sc generate whose unreported writes may fail
MaxFaultRuns == 1

\* longest --only list passed when the enabled set is examined
MaxOnly == 3

\* runs of sc generate followed up to the enabled set of Run
MaxEnabledRuns == 1

\* longest list of spec sources handed to ProcessSources
MaxSources == 2

\* runs of sc generate that process their spec sources step by step
MaxRegRuns == 1

\* calls of Plugin.Parse on one raw input
MaxParses == 2

\* runs of sc generate of a project with custom filenames
MaxNamedRuns == 1

\* runs of sc generate that a sc diff follows
MaxDiffedRuns == 1

\* runs of sc generate whose goroutines are followed to their end
MaxLiveRuns == 1

\* lines of the generated scripts content
MaxLines == 3

(* ------------------------------------------------------------------ *)
(* Artifacts                                                           *)
(* ------------------------------------------------------------------ *)

ArtifactSkill == "skill"

ArtifactReference == "reference"

ArtifactExamples == "examples"

ArtifactScripts == "scripts"

ArtifactLlms == "llms"

ArtifactLlmsAPI == "llms-api"

ArtifactLlmsFull == "llms-full"

ArtifactChangelog == "changelog"

AllArtifacts ==
  << ArtifactSkill, ArtifactReference, ArtifactExamples, ArtifactScripts,
     ArtifactLlms, ArtifactLlmsAPI, ArtifactLlmsFull, ArtifactChangelog >>

(* ------------------------------------------------------------------ *)
(* Generic helpers                                                     *)
(* ------------------------------------------------------------------ *)

Range(s) == { s[i] : i \in 1..Len(s) }

ArtifactIDs == Range(AllArtifacts)

EmptyMap == [x \in {} |-> 0]

Put(f, k, v) == [x \in (DOMAIN f) \cup {k} |-> IF x = k THEN v ELSE f[x]]

\* the elements of s that satisfy Keep, in the order of s
RECURSIVE FilterSeq(_, _)
FilterSeq(s, keep) ==
  IF s = << >> THEN << >>
  ELSE IF Head(s) \in keep THEN << Head(s) >> \o FilterSeq(Tail(s), keep)
       ELSE FilterSeq(Tail(s), keep)

\* every enumeration of the finite set S without repetition
Orderings(S) ==
  { s \in [1..Cardinality(S) -> S] :
      \A i, j \in 1..Cardinality(S) : i # j => s[i] # s[j] }

(* ------------------------------------------------------------------ *)
(* Inputs: instruction file and IR                                     *)
(* ------------------------------------------------------------------ *)

\* the instruction sections a project may hold: name -> body (the body is
\* abstracted to a revision number)
SectionChoices ==
  { [n \in {"Product", "Workflows"} |-> 1] }

\* the per-artifact toggles of the frontmatter, as the set of disabled ids
ToggleChoices ==
  { ArtifactIDs \ {ArtifactSkill, ArtifactLlms, ArtifactChangelog} }

\* the --only lists a caller passes (raw, before normalisation)
OnlyChoices ==
  { << >>, << " Skill " >>, << "LLMS", "CHANGELOG ", "bogus" >> }

\* the entries of an --only list, as typed: exact ids, ids with blanks or
\* capitals, and a word that is no artifact id
RawOnly ==
  { "skill", " Skill ", "LLMS", "CHANGELOG ", "Reference", "llms-api",
    "bogus" }

\* every --only list of at most MaxOnly entries
OnlyLists == UNION { [1..n -> RawOnly] : n \in 0..MaxOnly }

\* the toggles of skill, llms and changelog set either way
ToggleSets == SUBSET { ArtifactSkill, ArtifactLlms, ArtifactChangelog }

\* the flag combinations a caller passes: force, dryRun, diff
FlagChoices ==
  { << FALSE, FALSE, FALSE >>, << TRUE, FALSE, FALSE >>,
    << FALSE, FALSE, TRUE >>, << TRUE, FALSE, TRUE >>,
    << FALSE, TRUE, FALSE >>, << TRUE, TRUE, TRUE >> }

\* the model the provider of a command is resolved to ("m1" is the model of
\* the run that generated the project before)
Models == { "m2" }

(* ------------------------------------------------------------------ *)
(* Pure functions of the pipeline                                      *)
(* ------------------------------------------------------------------ *)

\* strings.ToLower(strings.TrimSpace(o)) on the raw --only entries of the model
NormalizeOnly(raw) ==
  CASE raw = " Skill " -> "skill"
    [] raw = "LLMS" -> "llms"
    [] raw = "CHANGELOG " -> "changelog"
    [] raw = "Reference" -> "reference"
    [] OTHER -> raw

\* an enabledArtifacts whose allow-list branch also consults the toggles
EnabledArtifactsToggled(only, disabledSet) ==
  IF Len(only) > 0
    THEN FilterSeq(AllArtifacts,
                   { NormalizeOnly(only[i]) : i \in 1..Len(only) }
                     \ disabledSet)
    ELSE FilterSeq(AllArtifacts, ArtifactIDs \ disabledSet)

\* Pipeline.enabledArtifacts: the allow-list when one is given, else the
\* fixed sequence minus the artifacts whose toggle is disabled
EnabledArtifacts(only, disabledSet) ==
  IF Len(only) > 0
    THEN FilterSeq(AllArtifacts, { NormalizeOnly(only[i]) : i \in 1..Len(only) })
    ELSE FilterSeq(AllArtifacts, ArtifactIDs \ disabledSet)

\* Pipeline.systemPrompt: the static prompt template of an artifact
SystemPromptFor(id) ==
  CASE id = ArtifactSkill -> "SkillPrompt"
    [] id = ArtifactReference -> "ReferencePrompt"
    [] id = ArtifactExamples -> "ExamplesPrompt"
    [] id = ArtifactScripts -> "ScriptsPrompt"
    [] id = ArtifactLlms -> "LlmsTxtPrompt"
    [] id = ArtifactLlmsAPI -> "LlmsAPITxtPrompt"
    [] id = ArtifactLlmsFull -> "LlmsFullTxtPrompt"
    [] id = ArtifactChangelog -> "ChangelogPrompt"
    [] OTHER -> ""

\* the artifacts whose relevant sections are collected by ranging over the
\* Sections map (Go leaves the iteration order of a map unspecified)
MapRangedArtifacts == { ArtifactSkill, ArtifactLlmsFull, ArtifactScripts }

ExamplesKeys == << "Workflows", "Examples", "Common patterns" >>

\* a RelevantSections that hashes all sections for the skill only and none
\* for llms-full and the scripts
RelevantSectionsSkillOnly(id, secs, iter) ==
  CASE id = ArtifactSkill ->
         [i \in 1..Len(iter) |-> << iter[i], secs[iter[i]] >>]
    [] id = ArtifactExamples ->
         LET present == FilterSeq(ExamplesKeys, DOMAIN secs)
         IN [i \in 1..Len(present) |-> << present[i], secs[present[i]] >>]
    [] id = ArtifactLlms ->
         IF "Product" \in DOMAIN secs
           THEN << << "Product", secs["Product"] >> >> ELSE << >>
    [] OTHER -> << >>

\* Pipeline.RelevantSections: the name/body pairs joined for hashing.  iter is
\* the order in which the map iteration of this call visits the section names.
RelevantSections(id, secs, iter) ==
  CASE id \in MapRangedArtifacts ->
         [i \in 1..Len(iter) |-> << iter[i], secs[iter[i]] >>]
    [] id = ArtifactExamples ->
         LET present == FilterSeq(ExamplesKeys, DOMAIN secs)
         IN [i \in 1..Len(present) |-> << present[i], secs[present[i]] >>]
    [] id = ArtifactLlms ->
         IF "Product" \in DOMAIN secs
           THEN << << "Product", secs["Product"] >> >> ELSE << >>
    [] OTHER -> << >>

\* Pipeline.artifactPath with no custom filename (project name "tool")
ArtifactPath(id) ==
  CASE id = ArtifactSkill -> "tool/SKILL.md"
    [] id = ArtifactReference -> "tool/references/reference.md"
    [] id = ArtifactExamples -> "tool/references/examples.md"
    [] id = ArtifactScripts -> "tool/scripts"
    [] id = ArtifactLlms -> "llms.txt"
    [] id = ArtifactLlmsAPI -> "llms-api.txt"
    [] id = ArtifactLlmsFull -> "llms-full.txt"
    [] id = ArtifactChangelog -> "CHANGELOG.md"
    [] OTHER -> "other.txt"

(* ------------------------------------------------------------------ *)
(* Fingerprint cache / lockfile (cache package)                        *)
(* ------------------------------------------------------------------ *)

\* cache.HashInput: a digest of the three inputs, taken as collision free
HashInput(specContent, sectionText, prompt) ==
  << "in", specContent, sectionText, prompt >>

\* cache.HashOutput: a digest of the content, taken as collision free
HashOutput(content) == << "out", content >>

\* LockFile.IsUpToDate: an entry exists and its input hash matches
IsUpToDate(lf, id, inputHash) ==
  id \in DOMAIN lf /\ lf[id].inputHash = inputHash

\* LockFile.UpdateEntry: overwrite or create the entry of id
UpdateEntry(lf, id, inputHash, outputHash, model, time) ==
  Put(lf, id, [inputHash |-> inputHash, outputHash |-> outputHash,
               model |-> model, updated |-> time])

\* generate.PrependChangelogEntry: the new entry ahead of the previous body
PrependChangelogEntry(entry, existing) == entry \o existing

\* the artifacts whose previous content is read back for the changelog prompt
PrevArtifactIDs ==
  { ArtifactSkill, ArtifactReference, ArtifactExamples, ArtifactChangelog }

\* generate.LoadPreviousArtifacts: the stored content of the previous run
LoadPreviousArtifacts(fs) ==
  [id \in { a \in PrevArtifactIDs : ArtifactPath(a) \in DOMAIN fs }
     |-> fs[ArtifactPath(id)]]

\* json.Marshal(parsedIR): the serialized IR (the IR is abstracted to a revision)
MarshalIR(irv) == << "json", irv >>

\* Pipeline.userMessage: the order in which the previous artifacts are quoted
PrevOrder ==
  << ArtifactSkill, ArtifactReference, ArtifactExamples, ArtifactChangelog >>

\* Pipeline.userMessage: the parts joined into the user message of the request
\* for id.  prev is Options.PrevArtifacts, irJSON the serialized IR, iter the
\* order in which the map iteration of this call visits the section names.
UserMessage(id, prev, secs, irJSON, iter) ==
  LET head == << << "Tool/Project Name" >>,
                 << "Environment Variable Prefix" >> >>
      instr(names) ==
        [i \in 1..Len(names) |->
           << "Instructions", names[i], secs[names[i]] >>]
      quoted == FilterSeq(PrevOrder,
                          { a \in DOMAIN prev : prev[a] # << >> })
      body ==
        CASE id \in MapRangedArtifacts -> instr(iter)
          [] id = ArtifactExamples ->
               instr(FilterSeq(ExamplesKeys, DOMAIN secs))
          [] id = ArtifactLlms ->
               instr(FilterSeq(<< "Product" >>, DOMAIN secs))
          [] id = ArtifactChangelog ->
               IF quoted = << >>
                 THEN << << "Note: first generation" >> >>
                 ELSE [i \in 1..Len(quoted) |->
                         << "Previous", quoted[i], prev[quoted[i]] >>]
          [] OTHER -> << >>
  IN head \o body \o << << "Spec", irJSON >> >>

\* estimateTokens: about four characters per token (sizes counted in parts)
EstimateTokens(systemPrompt, userMessage) ==
  (Len(systemPrompt) + Len(userMessage)) \div 4

(* ------------------------------------------------------------------ *)
(* State                                                               *)
(* ------------------------------------------------------------------ *)

VARIABLES
  sections,      \* instruction sections of the project: name -> body
  disabled,      \* artifact ids whose frontmatter toggle is disabled
  ir,            \* revision of the parsed IR
  diskLock,      \* the lockfile on disk: id -> entry
  files,         \* the output directory: path -> content
  cacheFiles,    \* cached artifact contents: id -> content
  now,           \* clock, advanced by every command
  runs,          \* generate commands started
  edits,         \* edits of the inputs made
  pc,            \* position of the command's main sequence
  opts,          \* the flags of the running command
  inst,          \* the parsed instructions of the running command
  lockFile,      \* the in-memory LockFile of the running command
  prevArtifacts, \* Options.PrevArtifacts
  specContent,   \* string(irJSON)
  skipArtifact,  \* Options.SkipArtifacts, as the set of ids mapped to true
  artifacts,     \* Run: the enabled artifacts
  parallel,      \* Run: the enabled artifacts but the changelog
  hasChangelog,  \* Run: the changelog is enabled
  results,       \* Run: the shared result slice
  gpc,           \* position of each generation goroutine
  gres,          \* the result each goroutine holds before appending it
  gseen,         \* the results slice as each goroutine read it to append
  mu,            \* sync.Mutex guarding results: "free" or the holder's id
  wg,            \* sync.WaitGroup counter
  outcome,       \* how the last command ended
  calls,         \* history: Provider.Generate calls of this run, per id
  lock0,         \* history: lockFile as loaded at the start of this run
  disk0,         \* history: diskLock at the start of this run
  files0,        \* history: files at the start of this run
  cache0,        \* history: cacheFiles at the start of this run
  phases,        \* history: the phases this run has entered, in order
  ioErrs,        \* history: I/O calls of this run that failed unreported
  cancelled,     \* the context handed to Run is cancelled
  changelogReq,  \* history: the user message of the changelog request
  lockIO,        \* history: the lockfile loads and saves of this run, in order
  sources,       \* the spec sources the instructions resolve to
  rpc,           \* ProcessSources: position in the loop body
  ri,            \* ProcessSources: index of the source being processed
  rplugin,       \* ProcessSources: the plugin Detect returned for it
  rlog,          \* history: the plugin calls made, as << op, plugin, index >>
  merged,        \* ProcessSources: the sources merged into the IR so far
  mergedIR,      \* ProcessSources: the merged IR, its operations and metadata
  allWarnings,   \* ProcessSources: the warnings collected so far
  rret,          \* what ProcessSources returned
  dpc,           \* runDiff: position
  di,            \* runDiff: index of the loop over AllArtifacts
  againstDir,    \* runDiff: the --against directory, NoDir when not given
  dlock,         \* runDiff: the LockFile it loaded
  dhash,         \* history: the input hash runDiff computed, per id
  drifted,       \* runDiff: the drifted flag
  dreport,       \* runDiff: the lines printed, as << kind, id or path >>
  dexit,         \* exit status of the diff command, NoExit while it runs
  dstart,        \* history: lockfile, files, cache and calls when diff began
  raw,           \* Plugin.Parse: the raw input handed to the plugin
  parses,        \* history: the IRs Parse returned for raw, in order
  reqID,         \* the artifact whose request is followed
  frontmatter,   \* Inst.Frontmatter: name, skill env and license
  prevOpt,       \* Options.PrevArtifacts of the command at hand
  stored,        \* the lockfile entry of reqID with the request behind it
  checked,       \* history: the cache check of reqID and the request of now
  filenames,     \* Frontmatter.Artifacts[id].Filename, where it is set
  helpTree,      \* the binary a cli source names, as its help tree
  crawlSrc,      \* the cli source: MaxDepth and Exclude
  queue,         \* Fetch: the queue of the breadth-first crawl
  crawled,       \* Fetch: results, the commands queried so far
  cpc,           \* Fetch: position
  lines,         \* writeScripts: the lines of the generated content
  sline,         \* writeScripts: index of the line the loop is at
  currentFile,   \* writeScripts: the name the open block carries
  currentContent, \* writeScripts: the lines collected for the open block
  inBlock,       \* writeScripts: a block is open
  created,       \* the files written, in order
  spc            \* writeScripts: position

inputVars == << sections, disabled, ir >>

diskVars == << diskLock, files, cacheFiles >>

countVars == << now, runs, edits >>

cmdVars == << opts, inst, lockFile, prevArtifacts, specContent >>

runVars == << artifacts, parallel, hasChangelog >>

goVars == << gpc, gres, gseen, mu, wg >>

histVars == << lock0, disk0, files0, cache0 >>

envVars == << ioErrs, cancelled, changelogReq >>

regVars == << sources, rpc, ri, rplugin, rlog, merged, mergedIR, allWarnings,
             rret >>

diffVars == << dpc, di, againstDir, dlock, dhash, drifted, dreport, dexit,
              dstart >>

parseVars == << raw, parses >>

reqVars == << reqID, frontmatter, prevOpt, stored, checked >>

nameVars == << filenames >>

crawlVars == << helpTree, crawlSrc, queue, crawled, cpc >>

scriptVars == << lines, sline, currentFile, currentContent, inBlock, created,
                spc >>

unitVars == << parseVars, reqVars, nameVars, crawlVars, scriptVars >>

sideVars == << lockIO, regVars, diffVars, unitVars >>

progVars == << inputVars, diskVars, countVars, pc, cmdVars, skipArtifact,
              runVars, results, goVars, outcome, calls, histVars, phases,
              envVars, lockIO, regVars, diffVars, nameVars >>

vars == << sections, disabled, ir, diskLock, files, cacheFiles, now, runs,
           edits, pc, opts, inst, lockFile, prevArtifacts, specContent,
           skipArtifact, artifacts, parallel, hasChangelog, results, gpc,
           gres, gseen, mu, wg, outcome, calls, lock0, disk0, files0, cache0, phases,
           ioErrs, cancelled, changelogReq, lockIO, sources, rpc, ri, rplugin,
           rlog, merged, mergedIR, allWarnings, rret, dpc, di, againstDir, dlock, dhash,
           drifted, dreport, dexit, dstart, raw, parses,
           reqID, frontmatter, prevOpt, stored, checked, filenames,
           helpTree, crawlSrc, queue, crawled, cpc, lines, sline,
           currentFile, currentContent, inBlock, created, spc >>

NoCalls == [id \in ArtifactIDs |-> 0]

\* "merged := &IntermediateRepr{Metadata: make(map[string]string)}"
EmptyIR == [Operations |-> << >>, Metadata |-> EmptyMap]

\* ProcessSources has not returned
NoReturn == [ir |-> << "nil" >>, warnings |-> << >>, err |-> << >>]

\* the --against flag was not given (the empty string)
NoDir == [given |-> FALSE, files |-> EmptyMap]

\* the --against flag names a directory that holds the files fs
Dir(fs) == [given |-> TRUE, files |-> fs]

\* the diff command has not exited
NoExit == "running"

\* no diff command was started
NoDiffYet ==
  [lock |-> EmptyMap, files |-> EmptyMap, cache |-> EmptyMap,
   calls |-> NoCalls]

\* a spec source: the fields of instructions.SpecSource the plugins look at
Source(type, path, url, command, binary) ==
  [Type |-> type, Path |-> path, URL |-> url, Command |-> command,
   Binary |-> binary]

\* "sc generate --spec ./petstore.yaml"
OpenAPIFile == Source("", "./petstore.yaml", "", "", "")

NoOpts == [force |-> FALSE, dryRun |-> FALSE, diff |-> FALSE,
           only |-> << >>, model |-> "m1"]

\* the content a successful generation of id at time t produces
Generated(id, t) == << << "gen", id, t >> >>

\* the lockfile an earlier, successful run of the artifacts ids at time 0
\* left behind, iter being the order of its map iterations
LockAfterRun(ids, secs, irv, iter) ==
  [id \in ids |->
     [inputHash |-> HashInput(MarshalIR(irv),
                              RelevantSections(id, secs, iter),
                              SystemPromptFor(id)),
      outputHash |-> HashOutput(Generated(id, 0)),
      model |-> "m1",
      updated |-> 0]]

\* the output directory that run left behind
FilesAfterRun(ids) ==
  [p \in { ArtifactPath(id) : id \in ids } |->
     Generated(CHOOSE id \in ids : ArtifactPath(id) = p, 0)]

\* no command is running.  The project is fresh (no lockfile, empty output
\* directory), or it was generated before: in full (the toggles were set
\* afterwards) or with the toggles as they are.
\* no command has run yet: the locals of runGenerate and of Run are unset
NoCommandYet ==
  /\ now = 0
  /\ runs = 0
  /\ edits = 0
  /\ pc = "idle"
  /\ opts = NoOpts
  /\ inst = [sections |-> sections, disabled |-> disabled]
  /\ lockFile = EmptyMap
  /\ prevArtifacts = EmptyMap
  /\ specContent = MarshalIR(1)
  /\ skipArtifact = {}
  /\ artifacts = << >>
  /\ parallel = << >>
  /\ hasChangelog = FALSE
  /\ results = << >>
  /\ gpc = EmptyMap
  /\ gres = EmptyMap
  /\ gseen = EmptyMap
  /\ mu = "free"
  /\ wg = 0
  /\ outcome = "none"
  /\ calls = NoCalls
  /\ lock0 = EmptyMap
  /\ disk0 = EmptyMap
  /\ files0 = EmptyMap
  /\ cache0 = EmptyMap
  /\ phases = << >>
  /\ ioErrs = {}
  /\ cancelled = FALSE
  /\ changelogReq = << >>
  /\ lockIO = << >>
  /\ rpc = "idle"
  /\ ri = 0
  /\ rplugin = ""
  /\ rlog = << >>
  /\ merged = << >>
  /\ mergedIR = EmptyIR
  /\ allWarnings = << >>
  /\ rret = NoReturn
  /\ dpc = "idle"
  /\ di = 0
  /\ dlock = EmptyMap
  /\ dhash = EmptyMap
  /\ drifted = FALSE
  /\ dreport = << >>
  /\ dexit = NoExit
  /\ dstart = NoDiffYet

\* no raw input
NoRaw ==
  [plugin |-> "", reqContent |-> {}, respContent |-> {}, blocks |-> << >>,
   deps |-> {}]

\* no plugin was handed a raw input
NoParseYet ==
  /\ raw = NoRaw
  /\ parses = << >>

\* no request is followed
NoRequestYet ==
  /\ reqID = ""
  /\ frontmatter = [Name |-> "tool", Env |-> << >>, License |-> ""]
  /\ prevOpt = EmptyMap
  /\ stored = << >>
  /\ checked = << >>

\* the frontmatter sets no custom filename
DefaultFilenames == filenames = EmptyMap

\* no binary is crawled
NoCrawlYet ==
  /\ helpTree = ""
  /\ crawlSrc = [MaxDepth |-> 0, Exclude |-> {}]
  /\ queue = << >>
  /\ crawled = << >>
  /\ cpc = "idle"

\* no scripts artifact is written
NoScriptsYet ==
  /\ lines = << >>
  /\ sline = 0
  /\ currentFile = << >>
  /\ currentContent = << >>
  /\ inBlock = FALSE
  /\ created = << >>
  /\ spc = "idle"

\* nothing has run
NoRunYet ==
  /\ NoCommandYet
  /\ NoParseYet
  /\ NoRequestYet
  /\ DefaultFilenames
  /\ NoCrawlYet
  /\ NoScriptsYet

\* the command line names one OpenAPI file and no comparison directory
PlainCommand ==
  /\ sources = << OpenAPIFile >>
  /\ againstDir = NoDir

Init ==
  /\ sections \in SectionChoices
  /\ disabled \in ToggleChoices
  /\ ir = 1
  /\ \/ /\ diskLock = EmptyMap
        /\ files = EmptyMap
        /\ cacheFiles = EmptyMap
     \/ \E iter \in Orderings(DOMAIN sections),
           ids \in { ArtifactIDs, ArtifactIDs \ disabled } :
          /\ diskLock = LockAfterRun(ids, sections, 1, iter)
          /\ files = FilesAfterRun(ids)
          /\ cacheFiles = [id \in ids |-> Generated(id, 0)]
  /\ NoRunYet
  /\ PlainCommand

(* ------------------------------------------------------------------ *)
(* The environment                                                     *)
(* ------------------------------------------------------------------ *)

\* ahead of a command the user edits the spec source or an instruction
\* section
EditInputs ==
  /\ pc = "idle"
  /\ edits < MaxEdits
  /\ runs < MaxRuns
  /\ edits' = edits + 1
  /\ \/ /\ ir' = ir + 1
        /\ UNCHANGED sections
     \/ /\ \E n \in DOMAIN sections :
             sections' = [sections EXCEPT ![n] = @ + 1]
        /\ UNCHANGED ir
  /\ UNCHANGED << disabled, diskVars, now, runs, pc, cmdVars, skipArtifact,
                  runVars, results, goVars, outcome, calls, histVars, sideVars, envVars, phases >>

(* ------------------------------------------------------------------ *)
(* runGenerate, up to the call of Pipeline.Run                         *)
(* ------------------------------------------------------------------ *)

\* runGenerate, flags to pipeline construction: the instructions are parsed,
\* the lockfile and the previous artifacts are loaded, the IR is serialized
StartRun(maxRuns, flags, onlys) ==
  /\ pc = "idle"
  /\ runs < maxRuns
  /\ \E fl \in flags, only \in onlys, m \in Models :
       opts' = [force |-> fl[1], dryRun |-> fl[2], diff |-> fl[3],
                only |-> only, model |-> m]
  /\ inst' = [sections |-> sections, disabled |-> disabled]
  /\ runs' = runs + 1
  /\ now' = now + 1
  /\ lockFile' = diskLock
  /\ prevArtifacts' = LoadPreviousArtifacts(files)
  /\ specContent' = MarshalIR(ir)
  /\ skipArtifact' = {}
  /\ artifacts' = << >>
  /\ parallel' = << >>
  /\ hasChangelog' = FALSE
  /\ results' = << >>
  /\ gpc' = EmptyMap
  /\ gres' = EmptyMap
  /\ gseen' = EmptyMap
  /\ mu' = "free"
  /\ wg' = 0
  /\ outcome' = "running"
  /\ calls' = NoCalls
  /\ lock0' = diskLock
  /\ disk0' = diskLock
  /\ files0' = files
  /\ cache0' = cacheFiles
  /\ phases' = << >>
  /\ ioErrs' = {}
  /\ cancelled' = FALSE
  /\ changelogReq' = << >>
  /\ lockIO' = << "load" >>
  /\ pc' = "check"
  /\ UNCHANGED << inputVars, diskVars, edits, diffVars, unitVars >>

\* runGenerate of a project whose spec sources were processed without error
Start(maxRuns, flags, onlys) ==
  /\ StartRun(maxRuns, flags, onlys)
  /\ UNCHANGED regVars

\* sc generate with any of the flag combinations
GenStart == Start(MaxRuns, FlagChoices, OnlyChoices)

\* the input hash of every artifact of the fixed sequence; iters gives, for
\* each artifact that ranges over the Sections map, the order of that iteration
InputHashes(spec, secs, iters) ==
  [id \in ArtifactIDs |->
     HashInput(spec,
               RelevantSections(id, secs,
                                IF id \in MapRangedArtifacts
                                  THEN iters[id] ELSE << >>),
               SystemPromptFor(id))]

\* a cache loop that takes any stored entry for a hit
CacheSkipsAnyEntry(lf, hashes) ==
  { id \in ArtifactIDs : id \in DOMAIN lf }

\* the body of the cache loop: the ids put into skipArtifact
CacheSkips(lf, hashes) ==
  { id \in ArtifactIDs : IsUpToDate(lf, id, hashes[id]) }

\* the exit test of the cache check: allUpToDate stayed true
AllUpToDate(skips) == skips = ArtifactIDs

\* a cache check that only a dry run passes over
ChecksCacheDespiteForce(o) == ~o.dryRun

\* "if !force && !dryRun": the cache check is entered
ChecksCache(o) == ~o.force /\ ~o.dryRun

\* runGenerate, "Check cache per artifact": skipped with --force or --dry-run
CacheCheck ==
  /\ pc = "check"
  /\ IF ~ChecksCache(opts)
       THEN /\ skipArtifact' = {}
            /\ pc' = "run"
            /\ UNCHANGED << outcome, phases >>
       ELSE \E iters \in [MapRangedArtifacts ->
                            Orderings(DOMAIN inst.sections)] :
              LET hashes == InputHashes(specContent, inst.sections, iters)
                  skips == CacheSkips(lockFile, hashes)
              IN /\ skipArtifact' = skips
                 /\ phases' = Append(phases, "Fingerprint")
                 /\ IF AllUpToDate(skips)
                      THEN pc' = "idle" /\ outcome' = "uptodate"
                      ELSE pc' = "run" /\ UNCHANGED outcome
  /\ UNCHANGED << inputVars, diskVars, countVars, cmdVars, runVars, results,
                  goVars, calls, histVars, sideVars, envVars >>

(* ------------------------------------------------------------------ *)
(* Pipeline.generateArtifact and the provider                          *)
(* ------------------------------------------------------------------ *)

\* an ArtifactResult: resp tells whether Response is set
Result(id, content, err, resp, model) ==
  [id |-> id, content |-> content, err |-> err, resp |-> resp,
   model |-> model]

\* a generateArtifact that reaches Provider.Generate for cache hits too
CallsProviderOnHit(id, o, skips) == ~o.dryRun

\* generateArtifact reaches Provider.Generate: not a dry run, not a cache hit
CallsProvider(id, o, skips) == ~o.dryRun /\ id \notin skips

\* what Provider.Generate may return at time t: an error, or a response whose
\* content is empty or is fresh text; under a cancelled context, the error
ProviderOutcomes(id, o, t) ==
  IF cancelled
    THEN { Result(id, << >>, TRUE, FALSE, "") }
    ELSE { Result(id, << >>, TRUE, FALSE, ""),
           Result(id, << >>, FALSE, TRUE, o.model),
           Result(id, Generated(id, t), FALSE, TRUE, o.model) }

\* Pipeline.generateArtifact: the results it may return
GenerateArtifact(id, o, skips, t, userMessage) ==
  IF o.dryRun
    THEN { Result(id,
                  << << "dry", id,
                        EstimateTokens(SystemPromptFor(id), userMessage) >> >>,
                  FALSE, FALSE, "") }
    ELSE IF id \in skips
      THEN { Result(id, << >>, FALSE, FALSE, "") }
      ELSE ProviderOutcomes(id, o, t)

(* ------------------------------------------------------------------ *)
(* Pipeline.Run                                                        *)
(* ------------------------------------------------------------------ *)

\* Run, first part: the enabled set, split into the parallel artifacts and
\* the changelog
RunResolve ==
  /\ pc = "run"
  /\ LET en == EnabledArtifacts(opts.only, inst.disabled)
     IN /\ artifacts' = en
        /\ parallel' = FilterSeq(en, ArtifactIDs \ {ArtifactChangelog})
        /\ hasChangelog' = (ArtifactChangelog \in Range(en))
  /\ phases' = Append(phases, "Resolve")
  /\ pc' = "launch"
  /\ UNCHANGED << inputVars, diskVars, countVars, cmdVars, skipArtifact,
                  results, goVars, outcome, calls, histVars, sideVars, envVars >>

\* Run, the launch loop: wg.Add(1) and go func(id) for every parallel id.  The
\* loop touches nothing a started goroutine reads, so it is one step.
RunLaunch ==
  /\ pc = "launch"
  /\ gpc' = [id \in Range(parallel) |-> "gen"]
  /\ gres' = EmptyMap
  /\ gseen' = EmptyMap
  /\ wg' = Len(parallel)
  /\ phases' = Append(phases, "Parallel")
  /\ pc' = "wait"
  /\ UNCHANGED << inputVars, diskVars, countVars, cmdVars, skipArtifact,
                  runVars, results, mu, outcome, calls, histVars, sideVars, envVars >>

\* goroutine: result := p.generateArtifact(ctx, id)
GoGenerate(id) ==
  /\ id \in DOMAIN gpc
  /\ gpc[id] = "gen"
  /\ \E iter \in Orderings(DOMAIN inst.sections) :
       \E r \in GenerateArtifact(id, opts, skipArtifact, now,
                                 UserMessage(id, prevArtifacts, inst.sections,
                                             specContent, iter)) :
         gres' = Put(gres, id, r)
  /\ calls' = IF CallsProvider(id, opts, skipArtifact)
                THEN [calls EXCEPT ![id] = @ + 1] ELSE calls
  /\ gpc' = [gpc EXCEPT ![id] = "lock"]
  /\ UNCHANGED << inputVars, diskVars, countVars, pc, cmdVars, skipArtifact,
                  runVars, results, gseen, mu, wg, outcome, histVars, sideVars,
                  envVars, phases >>

\* a goroutine that enters the append without waiting for the mutex
GoLockUnguarded(id) ==
  /\ id \in DOMAIN gpc
  /\ gpc[id] = "lock"
  /\ mu' = id
  /\ gpc' = [gpc EXCEPT ![id] = "crit"]
  /\ UNCHANGED << inputVars, diskVars, countVars, pc, cmdVars, skipArtifact,
                  runVars, results, gres, gseen, wg, outcome, calls, histVars, sideVars,
                  envVars, phases >>

\* goroutine: mu.Lock()
GoLock(id) ==
  /\ id \in DOMAIN gpc
  /\ gpc[id] = "lock"
  /\ mu = "free"
  /\ mu' = id
  /\ gpc' = [gpc EXCEPT ![id] = "crit"]
  /\ UNCHANGED << inputVars, diskVars, countVars, pc, cmdVars, skipArtifact,
                  runVars, results, gres, gseen, wg, outcome, calls, histVars, sideVars,
                  envVars, phases >>

\* goroutine: append(results, result) reads the shared slice
GoRead(id) ==
  /\ id \in DOMAIN gpc
  /\ gpc[id] = "crit"
  /\ gseen' = Put(gseen, id, results)
  /\ gpc' = [gpc EXCEPT ![id] = "write"]
  /\ UNCHANGED << inputVars, diskVars, countVars, pc, cmdVars, skipArtifact,
                  runVars, results, gres, mu, wg, outcome, calls, histVars, sideVars,
                  envVars, phases >>

\* a goroutine that records its own lockfile entry when it appends its result
GoAppendUpdating(id) ==
  /\ id \in DOMAIN gpc
  /\ gpc[id] = "write"
  /\ results' = Append(gseen[id], gres[id])
  /\ lockFile' = IF ~gres[id].err /\ gres[id].content # << >>
                   THEN UpdateEntry(lockFile, id,
                                    HashInput(specContent, << >>,
                                              SystemPromptFor(id)),
                                    HashOutput(gres[id].content),
                                    gres[id].model, now)
                   ELSE lockFile
  /\ mu' = "free"
  /\ wg' = wg - 1
  /\ gpc' = [gpc EXCEPT ![id] = "done"]
  /\ UNCHANGED << inputVars, diskVars, countVars, pc, opts, inst,
                  prevArtifacts, specContent, skipArtifact, runVars, gres,
                  gseen, outcome, calls, histVars, sideVars, envVars, phases >>

\* a goroutine that appends its result and leaves without mu.Unlock()
GoAppendHolding(id) ==
  /\ id \in DOMAIN gpc
  /\ gpc[id] = "write"
  /\ results' = Append(gseen[id], gres[id])
  /\ wg' = wg - 1
  /\ gpc' = [gpc EXCEPT ![id] = "done"]
  /\ UNCHANGED << inputVars, diskVars, countVars, pc, cmdVars, skipArtifact,
                  runVars, gres, gseen, mu, outcome, calls, histVars,
                  sideVars, envVars, phases >>

\* goroutine: results = the slice read with the result appended;
\* mu.Unlock(); wg.Done()
GoAppend(id) ==
  /\ id \in DOMAIN gpc
  /\ gpc[id] = "write"
  /\ results' = Append(gseen[id], gres[id])
  /\ mu' = "free"
  /\ wg' = wg - 1
  /\ gpc' = [gpc EXCEPT ![id] = "done"]
  /\ UNCHANGED << inputVars, diskVars, countVars, pc, cmdVars, skipArtifact,
                  runVars, gres, gseen, outcome, calls, histVars, sideVars, envVars,
                  phases >>

\* a barrier that does not wait for the goroutines
BarrierNoWait(w) == TRUE

\* wg.Wait() returns
BarrierOpen(w) == w = 0

\* an error check that lets every batch pass
HasErrorIgnored(rs) == FALSE

\* "Check for errors in parallel generation"
HasError(rs) == \E i \in 1..Len(rs) : rs[i].err

\* Run: wg.Wait(), then the error check; with an error Run returns it and
\* runGenerate returns it in turn
RunBarrier ==
  /\ pc = "wait"
  /\ BarrierOpen(wg)
  /\ phases' = Append(phases, "Barrier")
  /\ IF HasError(results)
       THEN pc' = "idle" /\ outcome' = "err"
       ELSE pc' = "dep" /\ UNCHANGED outcome
  /\ UNCHANGED << inputVars, diskVars, countVars, cmdVars, skipArtifact,
                  runVars, results, goVars, calls, histVars, sideVars, envVars >>

\* the user message generateArtifact builds for the changelog
ChangelogMessage ==
  UserMessage(ArtifactChangelog, prevArtifacts, inst.sections, specContent,
              << >>)

\* Run: "Generate changelog after all others", then return
RunChangelog ==
  /\ pc = "dep"
  /\ IF hasChangelog
       THEN \E r \in GenerateArtifact(ArtifactChangelog, opts, skipArtifact,
                                      now, ChangelogMessage) :
              /\ results' = Append(results, r)
              /\ changelogReq' =
                   IF CallsProvider(ArtifactChangelog, opts, skipArtifact)
                     THEN ChangelogMessage ELSE changelogReq
              /\ calls' = IF CallsProvider(ArtifactChangelog, opts,
                                           skipArtifact)
                            THEN [calls EXCEPT ![ArtifactChangelog] = @ + 1]
                            ELSE calls
              /\ IF r.err
                   THEN /\ pc' = "idle"
                        /\ outcome' = "err"
                        /\ phases' = Append(phases, "Dependent")
                   ELSE /\ pc' = "post"
                        /\ UNCHANGED outcome
                        /\ phases' = phases \o << "Dependent", "Done" >>
       ELSE /\ pc' = "post"
            /\ phases' = Append(phases, "Done")
            /\ UNCHANGED << results, calls, outcome, changelogReq >>
  /\ UNCHANGED << inputVars, diskVars, countVars, cmdVars, skipArtifact,
                  runVars, goVars, histVars, sideVars, ioErrs, cancelled >>

(* ------------------------------------------------------------------ *)
(* runGenerate, after Pipeline.Run returned without error              *)
(* ------------------------------------------------------------------ *)

\* a runGenerate without the dry-run return
GenPostPastDryRun ==
  /\ pc = "post"
  /\ IF opts.diff
       THEN pc' = "idle" /\ outcome' = "diff"
       ELSE pc' = "write" /\ UNCHANGED outcome
  /\ UNCHANGED << inputVars, diskVars, countVars, cmdVars, skipArtifact,
                  runVars, results, goVars, calls, histVars, sideVars, envVars,
                  phases >>

\* a runGenerate without the diff-mode return
GenPostPastDiff ==
  /\ pc = "post"
  /\ IF opts.dryRun
       THEN pc' = "idle" /\ outcome' = "dry"
       ELSE pc' = "write" /\ UNCHANGED outcome
  /\ UNCHANGED << inputVars, diskVars, countVars, cmdVars, skipArtifact,
                  runVars, results, goVars, calls, histVars, sideVars, envVars,
                  phases >>

\* a runGenerate that saves the lockfile before its dry-run and diff returns
GenPostSaving ==
  /\ pc = "post"
  /\ IF opts.dryRun \/ opts.diff
       THEN /\ pc' = "idle"
            /\ outcome' = IF opts.dryRun THEN "dry" ELSE "diff"
            /\ diskLock' = lockFile
            /\ lockIO' = Append(lockIO, "save")
       ELSE /\ pc' = "write"
            /\ UNCHANGED << outcome, diskLock, lockIO >>
  /\ UNCHANGED << inputVars, files, cacheFiles, countVars, cmdVars,
                  skipArtifact, runVars, results, goVars, calls, histVars,
                  regVars, diffVars, unitVars, envVars, phases >>

\* runGenerate: the dry-run return and the diff-mode return
GenPost ==
  /\ pc = "post"
  /\ IF opts.dryRun
       THEN pc' = "idle" /\ outcome' = "dry"
       ELSE IF opts.diff
         THEN pc' = "idle" /\ outcome' = "diff"
         ELSE pc' = "write" /\ UNCHANGED outcome
  /\ UNCHANGED << inputVars, diskVars, countVars, cmdVars, skipArtifact,
                  runVars, results, goVars, calls, histVars, sideVars, envVars,
                  phases >>

\* runGenerate, "Handle diff mode": what is printed for the results rs over
\* the output directory fs, as path/remark pairs.  A path that cannot be read
\* as a file (a missing one, the scripts directory) is reported as new, a file
\* with other content as changed, a file with the same content not at all.
DiffReport(fs, rs) ==
  LET shown == { i \in 1..Len(rs) : ~rs[i].err /\ rs[i].content # << >> }
      unreadable(i) == \/ ArtifactPath(rs[i].id) \notin DOMAIN fs
                       \/ rs[i].id = ArtifactScripts
  IN { << ArtifactPath(rs[i].id), "new file" >> :
         i \in { j \in shown : unreadable(j) } }
     \cup
     { << ArtifactPath(rs[i].id), "changed" >> :
         i \in { j \in shown : /\ ~unreadable(j)
                               /\ fs[ArtifactPath(rs[j].id)] # rs[j].content } }

\* WriteResults: a result with an error or with empty content is passed over
Writable(r) == ~r.err /\ r.content # << >>

\* WriteResults: the output directory after the results rs were written in
\* order (the files of the scripts artifact are held under its directory path)
RECURSIVE WriteResults(_, _)
WriteResults(fs, rs) ==
  IF rs = << >> THEN fs
  ELSE WriteResults(IF Writable(Head(rs))
                      THEN Put(fs, ArtifactPath(Head(rs).id), Head(rs).content)
                      ELSE fs,
                    Tail(rs))

\* runGenerate: "Write artifacts to output directory".  A write may fail: the
\* earlier results are then already written and runGenerate returns the error.
GenWrite ==
  /\ pc = "write"
  /\ \/ /\ files' = WriteResults(files, results)
        /\ pc' = "chlog"
        /\ UNCHANGED outcome
     \/ \E k \in 1..Len(results) :
          /\ Writable(results[k])
          /\ files' = WriteResults(files, SubSeq(results, 1, k - 1))
          /\ pc' = "idle"
          /\ outcome' = "err"
  /\ UNCHANGED << inputVars, diskLock, cacheFiles, countVars, cmdVars,
                  skipArtifact, runVars, results, goVars, calls, histVars, sideVars, envVars, phases >>

\* the previous changelog body, "" when there is none
ExistingChangelog(prev) ==
  IF ArtifactChangelog \in DOMAIN prev THEN prev[ArtifactChangelog] ELSE << >>

\* "Handle changelog append semantics": the results with the content of a
\* non-empty changelog replaced by the merged changelog
MergeChangelog(rs, prev) ==
  [i \in 1..Len(rs) |->
     IF rs[i].id = ArtifactChangelog /\ rs[i].content # << >>
       THEN [rs[i] EXCEPT !.content =
               PrependChangelogEntry(@, ExistingChangelog(prev))]
       ELSE rs[i]]

\* the results hold a changelog with content
HasChangelogEntry(rs) ==
  \E i \in 1..Len(rs) :
    rs[i].id = ArtifactChangelog /\ rs[i].content # << >>

\* runGenerate: the changelog rewrite.  results[i].Content becomes the merged
\* changelog; the file is rewritten unless MkdirAll or WriteFile fails, and
\* neither error is looked at.
GenChangelogAppend ==
  /\ pc = "chlog"
  /\ results' = MergeChangelog(results, prevArtifacts)
  /\ IF HasChangelogEntry(results)
       THEN \/ /\ files' =
                    Put(files, ArtifactPath(ArtifactChangelog),
                        PrependChangelogEntry(
                          (CHOOSE r \in Range(results) :
                             r.id = ArtifactChangelog).content,
                          ExistingChangelog(prevArtifacts)))
               /\ UNCHANGED ioErrs
            \/ /\ ioErrs' = ioErrs \cup { "WriteFile changelog" }
               /\ UNCHANGED files
       ELSE UNCHANGED << files, ioErrs >>
  /\ pc' = "update"
  /\ UNCHANGED << inputVars, diskLock, cacheFiles, countVars, cmdVars,
                  skipArtifact, runVars, goVars, outcome, calls, histVars, sideVars,
                  cancelled, changelogReq, phases >>

\* an update loop that passes over the failed results only
UpdatableAnyContent(r) == ~r.err

\* "Update cache and lockfile": a result with an error or with empty content
\* is passed over
Updatable(r) == ~r.err /\ r.content # << >>

\* an update loop that drops the response's model
ModelOfNone(r) == ""

\* the model recorded for a result
ModelOf(r) == IF r.resp THEN r.model ELSE ""

\* the update loop over rs: UpdateEntry for every result it does not pass over
RECURSIVE UpdateEntries(_, _, _, _)
UpdateEntries(lf, rs, hashes, t) ==
  IF rs = << >> THEN lf
  ELSE UpdateEntries(
         IF Updatable(Head(rs))
           THEN UpdateEntry(lf, Head(rs).id, hashes[Head(rs).id],
                            HashOutput(Head(rs).content), ModelOf(Head(rs)), t)
           ELSE lf,
         Tail(rs), hashes, t)

\* the update loop over rs: cache.WriteCached for every result it does not
\* pass over
RECURSIVE WriteCached(_, _)
WriteCached(cf, rs) ==
  IF rs = << >> THEN cf
  ELSE WriteCached(IF Updatable(Head(rs))
                     THEN Put(cf, Head(rs).id, Head(rs).content) ELSE cf,
                   Tail(rs))

\* runGenerate: the update loop, then cache.SaveLockFile, then return nil.
\* The results of cache.WriteCached and of cache.SaveLockFile are dropped: the
\* cache and the lockfile on disk stay as they were when the call fails.
GenUpdateLock ==
  /\ pc = "update"
  /\ \E iters \in [MapRangedArtifacts -> Orderings(DOMAIN inst.sections)] :
       lockFile' = UpdateEntries(lockFile, results,
                                 InputHashes(specContent, inst.sections,
                                             iters),
                                 now)
  /\ \E failed \in SUBSET { "WriteCached", "SaveLockFile" } :
       /\ "WriteCached" \in failed => \E r \in Range(results) : Updatable(r)
       /\ cacheFiles' = IF "WriteCached" \in failed
                          THEN cacheFiles
                          ELSE WriteCached(cacheFiles, results)
       /\ diskLock' = IF "SaveLockFile" \in failed
                        THEN diskLock ELSE lockFile'
       /\ ioErrs' = ioErrs \cup failed
  /\ lockIO' = Append(lockIO, "save")
  /\ pc' = "idle"
  /\ outcome' = "ok"
  /\ UNCHANGED << inputVars, files, countVars, opts, inst, prevArtifacts,
                  specContent, skipArtifact, runVars, results, goVars, calls,
                  histVars, regVars, diffVars, unitVars, cancelled, changelogReq,
                  phases >>

\* the changelog rewrite when it does not fail
GenChangelogAppendOk ==
  /\ GenChangelogAppend
  /\ ioErrs' = {}

\* the update of the cache and of the lockfile when no write fails
GenUpdateLockOk ==
  /\ GenUpdateLock
  /\ ioErrs' = {}

(* ------------------------------------------------------------------ *)
(* Specification                                                       *)
(* ------------------------------------------------------------------ *)

\* the commands over a project directory whose cache, lockfile and changelog
\* can be written
Next ==
  \/ EditInputs
  \/ GenStart
  \/ CacheCheck
  \/ RunResolve
  \/ RunLaunch
  \/ \E id \in ArtifactIDs : GoGenerate(id)
  \/ \E id \in ArtifactIDs : GoLock(id)
  \/ \E id \in ArtifactIDs : GoRead(id)
  \/ \E id \in ArtifactIDs : GoAppend(id)
  \/ RunBarrier
  \/ RunChangelog
  \/ GenPost
  \/ GenWrite
  \/ GenChangelogAppendOk
  \/ GenUpdateLockOk

Spec == Init /\ [][Next]_vars

(* ------------------------------------------------------------------ *)
(* Commands whose unreported writes may fail                           *)
(* ------------------------------------------------------------------ *)

\* sc generate with any of the flag combinations
GenStartFaulty == Start(MaxFaultRuns, FlagChoices, OnlyChoices)

\* the commands when the changelog rewrite, cache.WriteCached and
\* cache.SaveLockFile may fail as well
NextFaults ==
  \/ GenStartFaulty
  \/ CacheCheck
  \/ RunResolve
  \/ RunLaunch
  \/ \E id \in ArtifactIDs : GoGenerate(id)
  \/ \E id \in ArtifactIDs : GoLock(id)
  \/ \E id \in ArtifactIDs : GoRead(id)
  \/ \E id \in ArtifactIDs : GoAppend(id)
  \/ RunBarrier
  \/ RunChangelog
  \/ GenPost
  \/ GenWrite
  \/ GenChangelogAppend
  \/ GenUpdateLock

SpecFaults == Init /\ [][NextFaults]_vars

(* ------------------------------------------------------------------ *)
(* Run under a context its caller may cancel                           *)
(* ------------------------------------------------------------------ *)

\* the caller cancels the context of Run while a parallel task is in flight
Cancel ==
  /\ pc = "wait"
  /\ ~cancelled
  /\ \E id \in DOMAIN gpc : gpc[id] # "done"
  /\ cancelled' = TRUE
  /\ UNCHANGED << inputVars, diskVars, countVars, pc, cmdVars, skipArtifact,
                  runVars, results, goVars, outcome, calls, histVars, sideVars, ioErrs,
                  changelogReq, phases >>

NextCancel ==
  \/ Next
  \/ Cancel

SpecCancel == Init /\ [][NextCancel]_vars

(* ------------------------------------------------------------------ *)
(* A fresh project with every artifact enabled, run twice              *)
(* ------------------------------------------------------------------ *)

\* a project with no toggle switched off, no lockfile and no output yet
InitFull ==
  /\ sections \in SectionChoices
  /\ disabled = {}
  /\ ir = 1
  /\ diskLock = EmptyMap
  /\ files = EmptyMap
  /\ cacheFiles = EmptyMap
  /\ NoRunYet
  /\ PlainCommand

\* sc generate with no flag
GenStartPlain ==
  Start(MaxFullRuns, { << FALSE, FALSE, FALSE >> }, { << >> })

\* Run is entered in every run but the last one started, which is followed up
\* to the outcome of its fingerprint check
RunResolveBounded ==
  /\ runs < MaxFullRuns
  /\ RunResolve

\* the goroutine of id when the provider answers with text
GoGenerateOk(id) ==
  /\ GoGenerate(id)
  /\ ~gres'[id].err
  /\ (id \notin skipArtifact => gres'[id].content # << >>)

\* the changelog step when the provider answers with text
RunChangelogOk ==
  /\ RunChangelog
  /\ pc' = "post"
  /\ \A i \in 1..Len(results') :
       (results'[i].id = ArtifactChangelog /\ results'[i].resp)
         => results'[i].content # << >>

\* the file writes when none of them fails
GenWriteOk ==
  /\ GenWrite
  /\ pc' = "chlog"

\* no edit between the runs, a provider and a file system that do not fail
NextFull ==
  \/ GenStartPlain
  \/ CacheCheck
  \/ RunResolveBounded
  \/ RunLaunch
  \/ \E id \in ArtifactIDs : GoGenerateOk(id)
  \/ \E id \in ArtifactIDs : GoLock(id)
  \/ \E id \in ArtifactIDs : GoRead(id)
  \/ \E id \in ArtifactIDs : GoAppend(id)
  \/ RunBarrier
  \/ RunChangelogOk
  \/ GenPost
  \/ GenWriteOk
  \/ GenChangelogAppendOk
  \/ GenUpdateLockOk

SpecFull == InitFull /\ [][NextFull]_vars

(* ------------------------------------------------------------------ *)
(* The plugin registry (internal/ir, internal/plugins)                 *)
(* ------------------------------------------------------------------ *)

\* newPluginRegistry: the plugins in the order they are registered
Plugins == << "openapi", "cli", "codebase" >>

\* strings.ToLower(filepath.Ext(path)) on the paths of the model
LowerExt(path) ==
  CASE path = "./petstore.yaml" -> ".yaml"
    [] path = "API.YML" -> ".yml"
    [] path = "./schemas.json" -> ".json"
    [] path = "notes.txt" -> ".txt"
    [] path = "." -> "."
    [] OTHER -> ""

\* openapi.Plugin.Detect: the type, else the extension of the path
OpenAPIDetect(s) ==
  IF s.Type = "openapi" THEN TRUE
  ELSE IF s.Path # ""
    THEN LowerExt(s.Path) \in { ".yaml", ".yml", ".json" }
    ELSE IF s.URL # "" \/ s.Command # ""
      THEN s.Type = "openapi"
      ELSE FALSE

\* cli.Plugin.Detect
CLIDetect(s) == s.Type = "cli" /\ s.Binary # ""

\* codebase.Plugin.Detect
CodebaseDetect(s) == s.Type = "codebase"

\* SpecPlugin.Detect of the plugin named p
PluginDetect(p, s) ==
  CASE p = "openapi" -> OpenAPIDetect(s)
    [] p = "cli" -> CLIDetect(s)
    [] p = "codebase" -> CodebaseDetect(s)
    [] OTHER -> FALSE

\* the positions in the registry of the plugins that accept s
Accepting(s) == { k \in 1..Len(Plugins) : PluginDetect(Plugins[k], s) }

\* the least element of a non-empty set of numbers
Least(S) == CHOOSE k \in S : \A j \in S : k <= j

\* the greatest element of a non-empty set of numbers
Greatest(S) == CHOOSE k \in S : \A j \in S : j <= k

\* a Registry.Detect that returns the last plugin that accepts s
RegistryDetectLast(s) ==
  IF Accepting(s) = {} THEN "" ELSE Plugins[Greatest(Accepting(s))]

\* Registry.Detect: the first plugin whose Detect accepts s, "" (with the
\* error) when none does
RegistryDetect(s) ==
  IF Accepting(s) = {} THEN "" ELSE Plugins[Least(Accepting(s))]

\* Registry.Detect: the Detect calls it makes for source i, up to the first
\* plugin that accepts
DetectCalls(s, i) ==
  LET n == IF Accepting(s) = {} THEN Len(Plugins) ELSE Least(Accepting(s))
  IN [k \in 1..n |-> << "detect", Plugins[k], i >>]

\* what names a source: its path, URL, command or binary
Locator(s) ==
  IF s.Path # "" THEN s.Path
  ELSE IF s.URL # "" THEN s.URL
  ELSE IF s.Command # "" THEN s.Command
  ELSE s.Binary

\* the error of Registry.Detect: the names of the registered plugins
NoPluginError == << "no plugin can handle spec source (registered)" >> \o Plugins

\* the error of a failed Fetch as ProcessSources wraps it: the plugins name
\* the path, URL, command or binary they could not read
FetchError(p, s) == << "fetch", p, Locator(s) >>

\* the error of a failed Parse as ProcessSources wraps it: the plugins
\* describe the document, not the source
ParseError(p, s) == << "parse", p, "parsing document" >>

\* the fragment Parse of plugin p returns for source s, the i-th of the list:
\* the operations of that source, in the order the plugin gives them, and the
\* metadata keys the plugin sets (the OpenAPI plugin title, description and
\* version of the document, the CLI plugin binary and type, the codebase
\* plugin type and root)
Parsed(p, s, i) ==
  CASE p = "openapi" ->
         [Operations |-> << << i, "a" >>, << i, "b" >> >>,
          Metadata |-> [k \in { "title", "description", "version" } |->
                          << k, "of document", i >>]]
    [] p = "cli" ->
         [Operations |-> << << i, "cmd" >> >>,
          Metadata |-> [k \in { "binary", "type" } |->
                          IF k = "binary" THEN << s.Binary >> ELSE << "cli" >>]]
    [] OTHER ->
         [Operations |-> << >>,
          Metadata |-> [k \in { "type", "root" } |->
                          IF k = "root" THEN << s.Path >> ELSE << "codebase" >>]]

\* a Merge that puts the operations of the fragment ahead of the accumulator's
MergePrepending(a, b) ==
  [Operations |-> b.Operations \o a.Operations,
   Metadata |-> [k \in DOMAIN a.Metadata \cup DOMAIN b.Metadata |->
                   IF k \in DOMAIN b.Metadata
                     THEN b.Metadata[k] ELSE a.Metadata[k]]]

\* a Merge that keeps the metadata value the accumulator already holds
MergeKeeping(a, b) ==
  [Operations |-> a.Operations \o b.Operations,
   Metadata |-> [k \in DOMAIN a.Metadata \cup DOMAIN b.Metadata |->
                   IF k \in DOMAIN a.Metadata
                     THEN a.Metadata[k] ELSE b.Metadata[k]]]

\* IntermediateRepr.Merge: the operations of the fragment b are appended to
\* those of the accumulator a, its metadata entries are laid over a's
Merge(a, b) ==
  [Operations |-> a.Operations \o b.Operations,
   Metadata |-> [k \in DOMAIN a.Metadata \cup DOMAIN b.Metadata |->
                   IF k \in DOMAIN b.Metadata
                     THEN b.Metadata[k] ELSE a.Metadata[k]]]

\* ProcessSources returning at a failure
Failure(err) == [ir |-> << "nil" >>, warnings |-> << >>, err |-> err]

\* the spec sources of the model: an OpenAPI file by extension, an OpenAPI
\* URL by type, a CLI binary, a codebase directory, a codebase directory
\* whose name ends in .json, a URL with no type, a cli source with no binary
SourceChoices ==
  { OpenAPIFile,
    Source("openapi", "", "https://api.test/openapi", "", ""),
    Source("cli", "", "", "", "kubectl"),
    Source("codebase", ".", "", "", ""),
    Source("codebase", "./schemas.json", "", "", ""),
    Source("", "", "https://api.test/openapi", "", ""),
    Source("cli", "", "", "", "") }

\* every list of at most MaxSources sources
SourceLists == UNION { [1..n -> SourceChoices] : n \in 0..MaxSources }

\* runGenerate, from its start to the call reg.ProcessSources(sources)
ProcessBegin ==
  /\ pc = "idle"
  /\ rpc = "idle"
  /\ runs < MaxRegRuns
  /\ rpc' = "loop"
  /\ ri' = 1
  /\ rplugin' = ""
  /\ rlog' = << >>
  /\ merged' = << >>
  /\ mergedIR' = EmptyIR
  /\ allWarnings' = << >>
  /\ rret' = NoReturn
  /\ outcome' = "running"
  /\ calls' = NoCalls
  /\ phases' = << >>
  /\ lockIO' = << >>
  /\ UNCHANGED << inputVars, diskVars, countVars, pc, cmdVars, skipArtifact,
                  runVars, results, goVars, histVars, sources, diffVars, unitVars,
                  envVars >>

\* ProcessSources, loop head and r.Detect(src): the loop ends with the merged
\* IR and the warnings, or Detect picks the plugin, or its error is returned
ProcessDetect ==
  /\ rpc = "loop"
  /\ IF ri > Len(sources)
       THEN /\ rret' = [ir |-> merged, warnings |-> allWarnings,
                        err |-> << >>]
            /\ rpc' = "returned"
            /\ UNCHANGED << rplugin, rlog >>
       ELSE /\ rlog' = rlog \o DetectCalls(sources[ri], ri)
            /\ rplugin' = RegistryDetect(sources[ri])
            /\ IF RegistryDetect(sources[ri]) = ""
                 THEN /\ rret' = Failure(NoPluginError)
                      /\ rpc' = "returned"
                 ELSE /\ rpc' = "fetch"
                      /\ UNCHANGED rret
  /\ UNCHANGED << inputVars, diskVars, countVars, pc, cmdVars, skipArtifact,
                  runVars, results, goVars, outcome, calls, histVars, lockIO,
                  sources, ri, merged, mergedIR, allWarnings, diffVars, unitVars, envVars,
                  phases >>

\* ProcessSources: plugin.Fetch(src), which may fail
ProcessFetch ==
  /\ rpc = "fetch"
  /\ rlog' = Append(rlog, << "fetch", rplugin, ri >>)
  /\ \/ /\ rpc' = "parse"
        /\ UNCHANGED rret
     \/ /\ rret' = Failure(FetchError(rplugin, sources[ri]))
        /\ rpc' = "returned"
  /\ UNCHANGED << inputVars, diskVars, countVars, pc, cmdVars, skipArtifact,
                  runVars, results, goVars, outcome, calls, histVars, lockIO,
                  sources, ri, rplugin, merged, mergedIR, allWarnings, diffVars, unitVars,
                  envVars, phases >>

\* ProcessSources: plugin.Parse(raw, src), which may fail
ProcessParse ==
  /\ rpc = "parse"
  /\ rlog' = Append(rlog, << "parse", rplugin, ri >>)
  /\ \/ /\ rpc' = "validate"
        /\ UNCHANGED rret
     \/ /\ rret' = Failure(ParseError(rplugin, sources[ri]))
        /\ rpc' = "returned"
  /\ UNCHANGED << inputVars, diskVars, countVars, pc, cmdVars, skipArtifact,
                  runVars, results, goVars, outcome, calls, histVars, lockIO,
                  sources, ri, rplugin, merged, mergedIR, allWarnings, diffVars, unitVars,
                  envVars, phases >>

\* ProcessSources: plugin.Validate(parsed), whose warnings are collected, and
\* merged.Merge(parsed); then the next source
ProcessValidate ==
  /\ rpc = "validate"
  /\ rlog' = Append(rlog, << "validate", rplugin, ri >>)
  /\ \E w \in { << >>, << << "warning", ri >> >> } :
       allWarnings' = allWarnings \o w
  /\ merged' = Append(merged, ri)
  /\ mergedIR' = Merge(mergedIR, Parsed(rplugin, sources[ri], ri))
  /\ ri' = ri + 1
  /\ rpc' = "loop"
  /\ UNCHANGED << inputVars, diskVars, countVars, pc, cmdVars, skipArtifact,
                  runVars, results, goVars, outcome, calls, histVars, lockIO,
                  sources, rplugin, rret, diffVars, unitVars, envVars, phases >>

\* a runGenerate that goes on whatever ProcessSources returned
SourcesFailedIgnored(ret) == FALSE

\* runGenerate: "if err != nil" after reg.ProcessSources
SourcesFailed(ret) == ret.err # << >>

\* runGenerate returns "processing specs: ..." before the lockfile is loaded
\* and the pipeline is built
GenAbort ==
  /\ pc = "idle"
  /\ rpc = "returned"
  /\ SourcesFailed(rret)
  /\ rpc' = "idle"
  /\ runs' = runs + 1
  /\ now' = now + 1
  /\ outcome' = "err"
  /\ UNCHANGED << inputVars, diskVars, edits, pc, cmdVars, skipArtifact,
                  runVars, results, goVars, calls, histVars, lockIO, sources,
                  ri, rplugin, rlog, merged, mergedIR, allWarnings, rret, diffVars, unitVars,
                  envVars, phases >>

\* runGenerate goes on after ProcessSources returned the IR: sc generate
\* --only skill, with or without --force
GenStartSourced ==
  /\ rpc = "returned"
  /\ ~SourcesFailed(rret)
  /\ StartRun(MaxRegRuns,
              { << FALSE, FALSE, FALSE >>, << TRUE, FALSE, FALSE >> },
              { << " Skill " >> })
  /\ rpc' = "idle"
  /\ UNCHANGED << sources, ri, rplugin, rlog, merged, mergedIR, allWarnings, rret >>

\* a fresh project whose instructions name any of the source lists
InitReg ==
  /\ sections \in SectionChoices
  /\ disabled \in ToggleChoices
  /\ ir = 1
  /\ diskLock = EmptyMap
  /\ files = EmptyMap
  /\ cacheFiles = EmptyMap
  /\ NoRunYet
  /\ sources \in SourceLists
  /\ againstDir = NoDir

\* sc generate with the processing of the spec sources spelled out
NextReg ==
  \/ ProcessBegin
  \/ ProcessDetect
  \/ ProcessFetch
  \/ ProcessParse
  \/ ProcessValidate
  \/ GenAbort
  \/ GenStartSourced
  \/ CacheCheck
  \/ RunResolve
  \/ RunLaunch
  \/ \E id \in ArtifactIDs : GoGenerate(id)
  \/ \E id \in ArtifactIDs : GoLock(id)
  \/ \E id \in ArtifactIDs : GoRead(id)
  \/ \E id \in ArtifactIDs : GoAppend(id)
  \/ RunBarrier
  \/ RunChangelog
  \/ GenPost
  \/ GenWrite
  \/ GenChangelogAppendOk
  \/ GenUpdateLockOk

SpecReg == InitReg /\ [][NextReg]_vars

(* ------------------------------------------------------------------ *)
(* runDiff: sc diff [--against dir]                                    *)
(* ------------------------------------------------------------------ *)

\* os.ReadFile succeeds on the output path of id under the directory fs: the
\* path exists and is a file (the scripts path is a directory)
Readable(fs, id) == ArtifactPath(id) \in DOMAIN fs /\ id # ArtifactScripts

\* a comparison that takes the two directories the other way round
ClassifySwapped(cur, ag, id) ==
  IF ~Readable(cur, id) /\ ~Readable(ag, id) THEN "none"
  ELSE IF ~Readable(cur, id) THEN "ADDED"
  ELSE IF ~Readable(ag, id) THEN "REMOVED"
  ELSE IF cur[ArtifactPath(id)] # ag[ArtifactPath(id)] THEN "CHANGED"
  ELSE "none"

\* runDiff, body of the --against loop: what is printed for the output path
\* of id, given the current output directory cur and the comparison
\* directory ag
Classify(cur, ag, id) ==
  IF ~Readable(cur, id) /\ ~Readable(ag, id) THEN "none"
  ELSE IF ~Readable(cur, id) THEN "REMOVED"
  ELSE IF ~Readable(ag, id) THEN "ADDED"
  ELSE IF cur[ArtifactPath(id)] # ag[ArtifactPath(id)] THEN "CHANGED"
  ELSE "none"

\* a diff command that always exits with status zero
DriftExitZero(d) == 0

\* runDiff: os.Exit(1) when drifted, else return nil
DriftExit(d) == IF d THEN 1 ELSE 0

\* runGenerate / runDiff: the input hash of id over the current inputs, iter
\* being the order of the map iteration of this call
CurrentHash(id, iter) ==
  HashInput(MarshalIR(ir), RelevantSections(id, sections, iter),
            SystemPromptFor(id))

\* the lockfile of a project generated in full whose entry of id dates from
\* an earlier revision of the spec
LockStaleFor(id, iter) ==
  [LockAfterRun(ArtifactIDs, sections, 1, iter) EXCEPT
     ![id].inputHash = HashInput(MarshalIR(0),
                                 RelevantSections(id, sections, iter),
                                 SystemPromptFor(id))]

\* a comparison directory of an earlier generation: another SKILL.md, the
\* same llms.txt, and an llms-api.txt
OlderFiles ==
  [p \in { ArtifactPath(ArtifactSkill), ArtifactPath(ArtifactLlms),
           ArtifactPath(ArtifactLlmsAPI) } |->
     IF p = ArtifactPath(ArtifactSkill) THEN Generated(ArtifactSkill, -1)
     ELSE IF p = ArtifactPath(ArtifactLlms) THEN Generated(ArtifactLlms, 0)
     ELSE Generated(ArtifactLlmsAPI, 0)]

\* the --against flag: not given, an empty directory, a copy of a full
\* generation, an earlier generation
AgainstChoices ==
  { NoDir, Dir(EmptyMap), Dir(FilesAfterRun(ArtifactIDs)), Dir(OlderFiles) }

\* runDiff up to the drift loop: the lockfile is loaded, the instructions
\* and the spec sources are read
DiffStart ==
  /\ pc = "idle"
  /\ dpc = "idle"
  /\ dlock' = diskLock
  /\ di' = 1
  /\ dhash' = EmptyMap
  /\ drifted' = FALSE
  /\ dreport' = << >>
  /\ dexit' = NoExit
  /\ dstart' = [lock |-> diskLock, files |-> files, cache |-> cacheFiles,
                calls |-> calls]
  /\ dpc' = "hash"
  /\ UNCHANGED << inputVars, diskVars, countVars, pc, cmdVars, skipArtifact,
                  runVars, results, goVars, outcome, calls, histVars, lockIO,
                  regVars, againstDir, unitVars, envVars, phases >>

\* runDiff, one turn of "for _, id := range generate.AllArtifacts": the input
\* hash of id is computed and compared with the lockfile entry
DiffCheck ==
  /\ dpc = "hash"
  /\ LET id == AllArtifacts[di]
     IN \E iter \in Orderings(DOMAIN sections) :
          /\ dhash' = Put(dhash, id, CurrentHash(id, iter))
          /\ IF ~IsUpToDate(dlock, id, CurrentHash(id, iter))
               THEN /\ dreport' = Append(dreport, << "DRIFTED", id >>)
                    /\ drifted' = TRUE
               ELSE UNCHANGED << dreport, drifted >>
  /\ IF di < Len(AllArtifacts)
       THEN di' = di + 1 /\ UNCHANGED dpc
       ELSE di' = 1 /\ dpc' = IF againstDir.given THEN "files" ELSE "exit"
  /\ UNCHANGED << inputVars, diskVars, countVars, pc, cmdVars, skipArtifact,
                  runVars, results, goVars, outcome, calls, histVars, lockIO,
                  regVars, againstDir, unitVars, dlock, dexit, dstart, envVars,
                  phases >>

\* runDiff, one turn of the --against loop: the files at the output path of
\* the artifact are read from both directories and compared
DiffCompare ==
  /\ dpc = "files"
  /\ LET id == AllArtifacts[di]
         kind == Classify(files, againstDir.files, id)
     IN IF kind = "none"
          THEN UNCHANGED << dreport, drifted >>
          ELSE /\ dreport' = Append(dreport, << kind, ArtifactPath(id) >>)
               /\ drifted' = TRUE
  /\ IF di < Len(AllArtifacts)
       THEN di' = di + 1 /\ UNCHANGED dpc
       ELSE di' = 1 /\ dpc' = "exit"
  /\ UNCHANGED << inputVars, diskVars, countVars, pc, cmdVars, skipArtifact,
                  runVars, results, goVars, outcome, calls, histVars, lockIO,
                  regVars, againstDir, unitVars, dlock, dhash, dexit, dstart, envVars,
                  phases >>

\* a runDiff that records the hash of the skill artifact before it exits
DiffExitSaving ==
  /\ dpc = "exit"
  /\ dexit' = DriftExit(drifted)
  /\ dpc' = "done"
  /\ diskLock' = UpdateEntry(dlock, ArtifactSkill, dhash[ArtifactSkill],
                             HashOutput(<< >>), "", now)
  /\ UNCHANGED << inputVars, files, cacheFiles, countVars, pc, cmdVars,
                  skipArtifact, runVars, results, goVars, outcome, calls,
                  histVars, lockIO, regVars, di, againstDir, unitVars, dlock, dhash,
                  drifted, dreport, dstart, envVars, phases >>

\* runDiff: "if drifted { ... os.Exit(1) }", else "All artifacts up to date."
DiffExit ==
  /\ dpc = "exit"
  /\ dexit' = DriftExit(drifted)
  /\ dpc' = "done"
  /\ UNCHANGED << inputVars, diskVars, countVars, pc, cmdVars, skipArtifact,
                  runVars, results, goVars, outcome, calls, histVars, lockIO,
                  regVars, di, againstDir, unitVars, dlock, dhash, drifted, dreport,
                  dstart, envVars, phases >>

\* a project that is fresh, or was generated before (in full or with the
\* toggles as they are), or was generated in full and has one entry that
\* dates from an earlier spec; sc diff is given any of the comparison
\* directories
InitDiff ==
  /\ sections \in SectionChoices
  /\ disabled \in ToggleChoices
  /\ ir = 1
  /\ \/ /\ diskLock = EmptyMap
        /\ files = EmptyMap
        /\ cacheFiles = EmptyMap
     \/ \E iter \in Orderings(DOMAIN sections),
           ids \in { ArtifactIDs, ArtifactIDs \ disabled } :
          /\ diskLock = LockAfterRun(ids, sections, 1, iter)
          /\ files = FilesAfterRun(ids)
          /\ cacheFiles = [id \in ids |-> Generated(id, 0)]
     \/ \E iter \in Orderings(DOMAIN sections), id \in ArtifactIDs :
          /\ diskLock = LockStaleFor(id, iter)
          /\ files = FilesAfterRun(ArtifactIDs)
          /\ cacheFiles = [a \in ArtifactIDs |-> Generated(a, 0)]
  /\ NoRunYet
  /\ sources = << OpenAPIFile >>
  /\ againstDir \in AgainstChoices

\* one sc diff
NextDiff ==
  \/ DiffStart
  \/ DiffCheck
  \/ DiffCompare
  \/ DiffExit

SpecDiff == InitDiff /\ [][NextDiff]_vars

(* ------------------------------------------------------------------ *)
(* Specification: the enabled set of a run                             *)
(* ------------------------------------------------------------------ *)

\* a fresh project with any of the toggle settings
InitEnabled ==
  /\ sections \in SectionChoices
  /\ disabled \in ToggleSets
  /\ ir = 1
  /\ diskLock = EmptyMap
  /\ files = EmptyMap
  /\ cacheFiles = EmptyMap
  /\ NoRunYet
  /\ PlainCommand

\* sc generate --only ... with any of the allow-lists
GenStartOnly ==
  Start(MaxEnabledRuns, { << FALSE, FALSE, FALSE >> }, OnlyLists)

\* a run is followed up to the enabled set Run computes
NextEnabled ==
  \/ GenStartOnly
  \/ CacheCheck
  \/ RunResolve

SpecEnabled == InitEnabled /\ [][NextEnabled]_vars

(* ------------------------------------------------------------------ *)
(* Plugin.Parse of the three plugins, called again on the same input   *)
(* ------------------------------------------------------------------ *)

\* the content types an OpenAPI document declares for a body
ContentTypes == { "application/json", "application/xml" }

\* the dependencies a package.json declares
Dependencies == { "react", "express", "lodash" }

\* an OpenAPI document with one operation: the keys of the Content maps of
\* its request body and of its response
OpenAPIRaw(req, resp) ==
  [plugin |-> "openapi", reqContent |-> req, respContent |-> resp,
   blocks |-> << >>, deps |-> {}]

\* the text Fetch serialized for a binary: the command paths of its blocks
CLIRaw(blocks) ==
  [plugin |-> "cli", reqContent |-> {}, respContent |-> {},
   blocks |-> blocks, deps |-> {}]

\* a scan naming a package.json with the dependencies deps
CodebaseRaw(deps) ==
  [plugin |-> "codebase", reqContent |-> {}, respContent |-> {},
   blocks |-> << >>, deps |-> deps]

\* the help trees of the model, as the blocks of a breadth-first crawl
BlockChoices ==
  { << << "app" >> >>,
    << << "app" >>, << "app", "get" >> >>,
    << << "app" >>, << "app", "get" >>, << "app", "get", "all" >> >>,
    << << "app" >>, << "app", "get" >>, << "app", "set" >>,
       << "app", "get", "all" >>, << "app", "set", "key" >> >> }

RawChoices ==
  { OpenAPIRaw(req, resp) : req \in SUBSET ContentTypes,
                            resp \in SUBSET ContentTypes }
    \cup { CLIRaw(b) : b \in BlockChoices }
    \cup { CodebaseRaw(d) : d \in SUBSET Dependencies }

\* the IR a Parse returns, as far as the model follows it
ParsedIR(ops, req, resp, groups, frameworks) ==
  [Operations |-> ops, RequestBody |-> req, Responses |-> resp,
   Groups |-> groups, Frameworks |-> frameworks]

\* "for ct, mt := range content { ...; break }": the TypeRef of the key the
\* map iteration yields first, none for an empty map
FirstContentType(content) ==
  IF content = {} THEN { << >> } ELSE { << ct >> : ct \in content }

\* openapi Plugin.Parse: paths, methods and response codes are sorted, the
\* content type of a body is the first key of a map iteration
OpenAPIParseResults(r) ==
  { ParsedIR(<< "get_items" >>, req, << [StatusCode |-> "200", Body |-> resp] >>,
             << >>, << >>) :
      req \in FirstContentType(r.reqContent),
      resp \in FirstContentType(r.respContent) }

\* parts[:len(parts)-1] of a command path
Parent(path) == SubSeq(path, 1, Len(path) - 1)

\* the keys of groupMap: the parents of the commands below the binary
GroupParents(blocks) ==
  { Parent(blocks[i]) : i \in { j \in 1..Len(blocks) : Len(blocks[j]) > 1 } }

\* groupMap[parent]: the commands below parent, in the order of the blocks
GroupMap(blocks, parent) ==
  FilterSeq(blocks, { blocks[i] : i \in { j \in 1..Len(blocks) :
     Len(blocks[j]) > 1 /\ Parent(blocks[j]) = parent } })

\* cli Plugin.Parse: one operation per block in the order of the blocks, the
\* groups appended by "for name, ops := range groupMap"
CLIParseResults(r) ==
  { ParsedIR(r.blocks, << >>, << >>,
             [i \in 1..Len(order) |->
                [Name |-> order[i],
                 Operations |-> GroupMap(r.blocks, order[i])]],
             << >>) :
      order \in Orderings(GroupParents(r.blocks)) }

\* the framework parsePackageJSON detects from a dependency, none for others
Framework(name) ==
  CASE name = "react" -> << "React" >>
    [] name = "express" -> << "Express" >>
    [] OTHER -> << >>

\* appendUniq(slice, val)
AppendUniq(slice, val) ==
  IF val \in Range(slice) THEN slice ELSE Append(slice, val)

\* stack.Frameworks after "for name, ver := range pkg.Dependencies" met the
\* first n dependencies of the iteration order
RECURSIVE FrameworksAfter(_, _)
FrameworksAfter(order, n) ==
  IF n = 0 THEN << >>
  ELSE IF Framework(order[n]) = << >> THEN FrameworksAfter(order, n - 1)
  ELSE AppendUniq(FrameworksAfter(order, n - 1), Framework(order[n])[1])

\* codebase Plugin.Parse with parsePackageJSON: the frameworks in the order
\* the map iteration meets the dependencies
CodebaseParseResults(r) ==
  { ParsedIR(<< >>, << >>, << >>, << >>,
             FrameworksAfter(order, Len(order))) :
      order \in Orderings(r.deps) }

\* one call of the OpenAPI plugin's Parse on raw
OpenAPIParse ==
  /\ raw.plugin = "openapi"
  /\ Len(parses) < MaxParses
  /\ \E res \in OpenAPIParseResults(raw) : parses' = Append(parses, res)
  /\ UNCHANGED << progVars, raw, reqVars, crawlVars, scriptVars >>

\* one call of the CLI plugin's Parse on raw
CLIParse ==
  /\ raw.plugin = "cli"
  /\ Len(parses) < MaxParses
  /\ \E res \in CLIParseResults(raw) : parses' = Append(parses, res)
  /\ UNCHANGED << progVars, raw, reqVars, crawlVars, scriptVars >>

\* one call of the codebase plugin's Parse on raw
CodebaseParse ==
  /\ raw.plugin = "codebase"
  /\ Len(parses) < MaxParses
  /\ \E res \in CodebaseParseResults(raw) : parses' = Append(parses, res)
  /\ UNCHANGED << progVars, raw, reqVars, crawlVars, scriptVars >>

\* a raw input of one of the plugins, not parsed yet
InitParse ==
  /\ sections = EmptyMap
  /\ disabled = {}
  /\ ir = 1
  /\ diskLock = EmptyMap
  /\ files = EmptyMap
  /\ cacheFiles = EmptyMap
  /\ NoCommandYet
  /\ PlainCommand
  /\ raw \in RawChoices
  /\ parses = << >>
  /\ NoRequestYet
  /\ DefaultFilenames
  /\ NoCrawlYet
  /\ NoScriptsYet

NextParse ==
  \/ OpenAPIParse
  \/ CLIParse
  \/ CodebaseParse

SpecParse == InitParse /\ [][NextParse]_vars

(* ------------------------------------------------------------------ *)
(* The request of one artifact and the cache check that skips it       *)
(* ------------------------------------------------------------------ *)

\* the frontmatter values a project may carry
FrontmatterChoices ==
  { [Name |-> n, Env |-> e, License |-> l] :
      n \in { "tool", "kit" }, e \in { << >>, << "TOKEN" >> },
      l \in { "", "MIT" } }

\* the instruction sections of the projects whose requests are followed
RequestSections ==
  { [n \in { "Product" } |-> 1],
    [n \in { "Product", "Workflows" } |-> 1],
    [n \in { "Examples", "Notes" } |-> 1] }

\* Options.PrevArtifacts as LoadPreviousArtifacts finds them in the output
PrevChoices ==
  { EmptyMap,
    [a \in { ArtifactSkill } |-> Generated(ArtifactSkill, 0)],
    [a \in { ArtifactSkill } |-> Generated(ArtifactSkill, 1)] }

\* Instructions.EnvPrefix: the prefix derived from the project name
EnvPrefix(fm) == << "PREFIX", fm.Name >>

\* Pipeline.userMessage, the parts ahead of the instruction sections: name,
\* prefix, the environment variables if any and, for the skill, its metadata
MessageHead(id, fm) ==
  << << "Tool/Project Name", fm.Name >>,
     << "Environment Variable Prefix", EnvPrefix(fm) >> >>
    \o (IF Len(fm.Env) > 0
          THEN << << "Environment Variables", fm.Env >> >> ELSE << >>)
    \o (IF id = ArtifactSkill /\ fm.License # ""
          THEN << << "License", fm.License >> >> ELSE << >>)

\* Pipeline.userMessage with the frontmatter fm
RequestMessage(id, fm, prev, secs, irJSON, iter) ==
  LET m == UserMessage(id, prev, secs, irJSON, iter)
  IN MessageHead(id, fm) \o SubSeq(m, 3, Len(m))

\* the request generateArtifact sends for id
Request(id, fm, prev, secs, irJSON, iter) ==
  [system |-> SystemPromptFor(id),
   user |-> RequestMessage(id, fm, prev, secs, irJSON, iter)]

\* the map iteration orders one call may see for id
IterationsFor(id, secs) ==
  IF id \in MapRangedArtifacts THEN Orderings(DOMAIN secs) ELSE { << >> }

\* the artifact is generated: its lockfile entry holds the input hash of the
\* inputs of now, and the request sent is kept aside
ReqGenerate ==
  /\ stored = << >>
  /\ \E hiter \in IterationsFor(reqID, sections),
        miter \in IterationsFor(reqID, sections) :
       LET hashed == RelevantSections(reqID, sections, hiter)
       IN stored' =
            << [inputHash |->
                  HashInput(MarshalIR(ir), hashed, SystemPromptFor(reqID)),
                hashed |-> hashed,
                request |-> Request(reqID, frontmatter, prevOpt, sections,
                                    MarshalIR(ir), miter)] >>
  /\ UNCHANGED << progVars, parseVars, crawlVars, scriptVars, reqID, frontmatter, prevOpt, checked >>

\* between two commands the frontmatter is edited, or the files read back as
\* previous artifacts change
ReqEdit ==
  /\ stored # << >>
  /\ checked = << >>
  /\ \E fm \in FrontmatterChoices, pv \in PrevChoices :
       /\ << fm, pv >> # << frontmatter, prevOpt >>
       /\ frontmatter' = fm
       /\ prevOpt' = pv
  /\ UNCHANGED << progVars, parseVars, crawlVars, scriptVars, reqID, stored, checked >>

\* runGenerate, one turn of the cache loop for the artifact: its input hash
\* is computed and compared with the entry; the request of now is kept aside
ReqCheck ==
  /\ stored # << >>
  /\ checked = << >>
  /\ \E hiter \in IterationsFor(reqID, sections),
        miter \in IterationsFor(reqID, sections) :
       LET hashed == RelevantSections(reqID, sections, hiter)
           inputHash ==
             HashInput(MarshalIR(ir), hashed, SystemPromptFor(reqID))
       IN checked' =
            << [hit |-> IsUpToDate([id \in { reqID } |-> stored[1]],
                                   reqID, inputHash),
                hashed |-> hashed,
                request |-> Request(reqID, frontmatter, prevOpt, sections,
                                    MarshalIR(ir), miter)] >>
  /\ UNCHANGED << progVars, parseVars, crawlVars, scriptVars, reqID, frontmatter, prevOpt, stored >>

\* one artifact of a project, not generated yet
InitRequest ==
  /\ sections \in RequestSections
  /\ disabled = {}
  /\ ir = 1
  /\ diskLock = EmptyMap
  /\ files = EmptyMap
  /\ cacheFiles = EmptyMap
  /\ NoCommandYet
  /\ PlainCommand
  /\ NoParseYet
  /\ DefaultFilenames
  /\ reqID \in ArtifactIDs
  /\ frontmatter \in FrontmatterChoices
  /\ prevOpt \in PrevChoices
  /\ stored = << >>
  /\ checked = << >>
  /\ NoCrawlYet
  /\ NoScriptsYet

NextRequest ==
  \/ ReqGenerate
  \/ ReqEdit
  \/ ReqCheck

SpecRequest == InitRequest /\ [][NextRequest]_vars

(* ------------------------------------------------------------------ *)
(* A run of a project whose frontmatter sets custom filenames          *)
(* ------------------------------------------------------------------ *)

\* the artifacts the project of this section enables
NamedArtifacts ==
  { ArtifactReference, ArtifactLlms, ArtifactLlmsAPI, ArtifactChangelog }

\* the custom filenames of the frontmatter: none, one name for two
\* artifacts, two names
FilenameChoices ==
  { EmptyMap,
    [id \in { ArtifactLlms, ArtifactLlmsAPI } |-> "docs.txt"],
    [id \in { ArtifactLlms, ArtifactLlmsAPI } |->
       IF id = ArtifactLlms THEN "docs.txt" ELSE "api.txt"] }

\* Pipeline.artifactPath: the custom filename of the toggle when it is set
\* (joined as it is for the artifacts outside the skill directory), the
\* default path otherwise
ArtifactPathNamed(names, id) ==
  IF id \in DOMAIN names /\ names[id] # ""
    THEN CASE id = ArtifactSkill -> "tool/" \o names[id]
           [] id \in { ArtifactReference, ArtifactExamples } ->
                "tool/references/" \o names[id]
           [] id = ArtifactScripts -> "tool/scripts/" \o names[id]
           [] OTHER -> names[id]
    ELSE ArtifactPath(id)

\* WriteResults over results whose FilePath is the path artifactPath gave
RECURSIVE WriteResultsNamed(_, _, _)
WriteResultsNamed(fs, rs, names) ==
  IF rs = << >> THEN fs
  ELSE WriteResultsNamed(
         IF Writable(Head(rs))
           THEN Put(fs, ArtifactPathNamed(names, Head(rs).id),
                    Head(rs).content)
           ELSE fs,
         Tail(rs), names)

\* runGenerate: "Write artifacts to output directory", no write failing
GenWriteNamed ==
  /\ pc = "write"
  /\ files' = WriteResultsNamed(files, results, filenames)
  /\ pc' = "chlog"
  /\ UNCHANGED << inputVars, diskLock, cacheFiles, countVars, cmdVars,
                  skipArtifact, runVars, results, goVars, outcome, calls,
                  histVars, sideVars, envVars, phases >>

\* a fresh project that enables the reference, llms, llms-api and the
\* changelog
InitNamed ==
  /\ sections \in SectionChoices
  /\ disabled = ArtifactIDs \ NamedArtifacts
  /\ ir = 1
  /\ diskLock = EmptyMap
  /\ files = EmptyMap
  /\ cacheFiles = EmptyMap
  /\ NoCommandYet
  /\ PlainCommand
  /\ NoParseYet
  /\ NoRequestYet
  /\ filenames \in FilenameChoices
  /\ NoCrawlYet
  /\ NoScriptsYet

\* sc generate with no flag, once
GenStartNamed ==
  Start(MaxNamedRuns, { << FALSE, FALSE, FALSE >> }, { << >> })

\* one run with a provider and a file system that do not fail
NextNamed ==
  \/ GenStartNamed
  \/ CacheCheck
  \/ RunResolve
  \/ RunLaunch
  \/ \E id \in ArtifactIDs : GoGenerateOk(id)
  \/ \E id \in ArtifactIDs : GoLock(id)
  \/ \E id \in ArtifactIDs : GoRead(id)
  \/ \E id \in ArtifactIDs : GoAppend(id)
  \/ RunBarrier
  \/ RunChangelogOk
  \/ GenPost
  \/ GenWriteNamed
  \/ GenChangelogAppendOk
  \/ GenUpdateLockOk

SpecNamed == InitNamed /\ [][NextNamed]_vars

(* ------------------------------------------------------------------ *)
(* sc generate followed at once by sc diff                             *)
(* ------------------------------------------------------------------ *)

\* the toggles of the projects that are generated and then diffed: three
\* artifacts enabled, or all of them but the scripts and the two larger
\* llms files
DiffedToggles ==
  ToggleChoices \cup
    { { ArtifactScripts, ArtifactLlmsAPI, ArtifactLlmsFull } }

\* a fresh project with toggles, no comparison directory on the command line
InitDiffed ==
  /\ sections \in SectionChoices
  /\ disabled \in DiffedToggles
  /\ ir = 1
  /\ diskLock = EmptyMap
  /\ files = EmptyMap
  /\ cacheFiles = EmptyMap
  /\ NoRunYet
  /\ PlainCommand

\* sc generate with no flag and no allow-list, once
GenStartDiffed ==
  Start(MaxDiffedRuns, { << FALSE, FALSE, FALSE >> }, { << >> })

\* sc diff, entered once the generate command has returned nil
DiffAfterRun ==
  /\ outcome = "ok"
  /\ DiffStart

\* the run, with a file system that does not fail, and the diff after it
NextDiffed ==
  \/ GenStartDiffed
  \/ CacheCheck
  \/ RunResolve
  \/ RunLaunch
  \/ \E id \in ArtifactIDs : GoGenerate(id)
  \/ \E id \in ArtifactIDs : GoLock(id)
  \/ \E id \in ArtifactIDs : GoRead(id)
  \/ \E id \in ArtifactIDs : GoAppend(id)
  \/ RunBarrier
  \/ RunChangelog
  \/ GenPost
  \/ GenWriteOk
  \/ GenChangelogAppendOk
  \/ GenUpdateLockOk
  \/ DiffAfterRun
  \/ DiffCheck
  \/ DiffExit

SpecDiffed == InitDiffed /\ [][NextDiffed]_vars

(* ------------------------------------------------------------------ *)
(* Run with goroutines that are scheduled and a provider that answers  *)
(* ------------------------------------------------------------------ *)

\* a fresh project that enables the reference, llms, llms-api and the
\* changelog
InitLive ==
  /\ sections \in SectionChoices
  /\ disabled = ArtifactIDs \ NamedArtifacts
  /\ ir = 1
  /\ diskLock = EmptyMap
  /\ files = EmptyMap
  /\ cacheFiles = EmptyMap
  /\ NoRunYet
  /\ PlainCommand

\* sc generate with any of the flag combinations and no allow-list
GenStartLive == Start(MaxLiveRuns, FlagChoices, { << >> })

NextLive ==
  \/ GenStartLive
  \/ CacheCheck
  \/ RunResolve
  \/ RunLaunch
  \/ \E id \in ArtifactIDs : GoGenerate(id)
  \/ \E id \in ArtifactIDs : GoLock(id)
  \/ \E id \in ArtifactIDs : GoRead(id)
  \/ \E id \in ArtifactIDs : GoAppend(id)
  \/ RunBarrier
  \/ RunChangelog
  \/ GenPost
  \/ GenWrite
  \/ GenChangelogAppend
  \/ GenUpdateLock

\* the Go scheduler runs every goroutine that can take a step, Run's own
\* included, and every provider call returns
RunFairness ==
  /\ WF_vars(RunResolve)
  /\ WF_vars(RunLaunch)
  /\ \A id \in ArtifactIDs :
       /\ WF_vars(GoGenerate(id))
       /\ WF_vars(GoLock(id))
       /\ WF_vars(GoRead(id))
       /\ WF_vars(GoAppend(id))
  /\ WF_vars(RunBarrier)
  /\ WF_vars(RunChangelog)

SpecLive == InitLive /\ [][NextLive]_vars /\ RunFairness

(* ------------------------------------------------------------------ *)
(* cli Plugin.Fetch: the breadth-first crawl of the help tree          *)
(* ------------------------------------------------------------------ *)

\* "if maxDepth <= 0 { maxDepth = 3 }"
DefaultMaxDepth == 3

\* the maxDepth the crawl works with
MaxDepthOf(src) ==
  IF src.MaxDepth <= 0 THEN DefaultMaxDepth ELSE src.MaxDepth

\* the binaries of the model: "nested" lists the same two subcommands under
\* every command, "app" has a small tree with one command whose help fails
HelpTrees == { "nested", "app" }

\* the subcommands parseHelpOutput finds in the help of the command at path
Subcommands(tree, path) ==
  CASE tree = "nested" -> << "get", "help" >>
    [] tree = "app" /\ path = << >> -> << "get", "set", "help" >>
    [] tree = "app" /\ path = << "get" >> -> << "all" >>
    [] tree = "app" /\ path = << "set" >> -> << "key" >>
    [] OTHER -> << >>

\* runWithTimeout returns an error for the command at path
HelpFails(tree, path) == tree = "app" /\ path = << "set" >>

\* the MaxDepth and Exclude settings of the cli sources of the model
CrawlSources ==
  { [MaxDepth |-> d, Exclude |-> e] :
      d \in { -1, 0, 1, 2, 4 },
      e \in { {}, { "help" }, { "get", "key" } } }

\* a crawl that expands the commands at maxDepth as well
ExpandsInclusive(depth, maxDepth) == depth <= maxDepth

\* "if entry.depth < maxDepth": the subcommands of the entry are queued
Expands(depth, maxDepth) == depth < maxDepth

\* the entries queued for the subcommands subs of the entry e
Discovered(e, subs, exclude) ==
  LET kept == FilterSeq(subs, Range(subs) \ exclude)
  IN [i \in 1..Len(kept) |->
        [path |-> Append(e.path, kept[i]), depth |-> e.depth + 1]]

\* Fetch up to the loop: the queue holds the root command
FetchBegin ==
  /\ cpc = "idle"
  /\ queue' = << [path |-> << >>, depth |-> 0] >>
  /\ crawled' = << >>
  /\ cpc' = "crawl"
  /\ UNCHANGED << progVars, parseVars, reqVars, scriptVars, helpTree, crawlSrc >>

\* one turn of "for len(queue) > 0": the head of the queue is taken, its help
\* is run, the result is appended and, unless the call failed, the
\* subcommands that are not excluded are queued
CrawlStep ==
  /\ cpc = "crawl"
  /\ queue # << >>
  /\ LET entry == Head(queue)
         failed == HelpFails(helpTree, entry.path)
     IN /\ crawled' = Append(crawled,
                             [commandPath |-> entry.path, failed |-> failed])
        /\ queue' =
             IF ~failed /\ Expands(entry.depth, MaxDepthOf(crawlSrc))
               THEN Tail(queue) \o
                      Discovered(entry, Subcommands(helpTree, entry.path),
                                 crawlSrc.Exclude)
               ELSE Tail(queue)
  /\ UNCHANGED << progVars, parseVars, reqVars, scriptVars, helpTree, crawlSrc, cpc >>

\* the queue is empty: the results are serialized and returned
FetchReturn ==
  /\ cpc = "crawl"
  /\ queue = << >>
  /\ cpc' = "done"
  /\ UNCHANGED << progVars, parseVars, reqVars, scriptVars, helpTree, crawlSrc, queue,
                  crawled >>

\* a binary and a cli source, not crawled yet
InitCrawl ==
  /\ sections = EmptyMap
  /\ disabled = {}
  /\ ir = 1
  /\ diskLock = EmptyMap
  /\ files = EmptyMap
  /\ cacheFiles = EmptyMap
  /\ NoCommandYet
  /\ PlainCommand
  /\ NoParseYet
  /\ NoRequestYet
  /\ DefaultFilenames
  /\ helpTree \in HelpTrees
  /\ crawlSrc \in CrawlSources
  /\ queue = << >>
  /\ crawled = << >>
  /\ cpc = "idle"
  /\ NoScriptsYet

NextCrawl ==
  \/ FetchBegin
  \/ CrawlStep
  \/ FetchReturn

\* Fetch is sequential code and every help call returns within its timeout
CrawlFairness ==
  /\ WF_vars(FetchBegin)
  /\ WF_vars(CrawlStep)
  /\ WF_vars(FetchReturn)

SpecCrawl == InitCrawl /\ [][NextCrawl]_vars /\ CrawlFairness

(* ------------------------------------------------------------------ *)
(* writeScripts: the files cut out of the scripts artifact             *)
(* ------------------------------------------------------------------ *)

\* filepath.Join(outputDir, scriptsDir), as path components
ScriptsDir == << "out", "tool", "scripts" >>

\* a line that begins with three backquotes; header is the text after them,
\* trimmed, as path components (none for the bare fence)
Fence(header) == [fence |-> TRUE, header |-> header]

\* any other line
TextLine == [fence |-> FALSE, header |-> << >>]

\* the lines generated content is made of
LineChoices ==
  { Fence(<< >>), Fence(<< "run.sh" >>), Fence(<< "..", "x.sh" >>),
    TextLine }

\* strings.Split(content, "\n") for the contents of up to MaxLines lines
ContentChoices ==
  UNION { [1..n -> LineChoices] : n \in 0..MaxLines }

\* filepath.Clean over the components: ".." drops the component before it
RECURSIVE Clean(_, _)
Clean(done, rest) ==
  IF rest = << >> THEN done
  ELSE IF Head(rest) = ".." /\ done # << >>
    THEN Clean(SubSeq(done, 1, Len(done) - 1), Tail(rest))
  ELSE Clean(Append(done, Head(rest)), Tail(rest))

\* filepath.Join(dir, name)
JoinPath(dir, name) == Clean(<< >>, dir \o name)

\* writeScripts up to its loop
ScriptsBegin ==
  /\ spc = "idle"
  /\ currentFile' = << >>
  /\ currentContent' = << >>
  /\ inBlock' = FALSE
  /\ sline' = 1
  /\ created' = << >>
  /\ spc' = "lines"
  /\ UNCHANGED << progVars, parseVars, reqVars, crawlVars, lines >>

\* one turn of "for _, line := range lines": a fence outside a block opens
\* one and sets currentFile, the bare fence inside a block closes it and
\* writes the file if currentFile is not empty, another line inside a block
\* is collected
ScriptsLine ==
  /\ spc = "lines"
  /\ sline <= Len(lines)
  /\ LET line == lines[sline]
     IN IF line.fence /\ ~inBlock
          THEN /\ currentFile' = line.header
               /\ currentContent' = << >>
               /\ inBlock' = TRUE
               /\ UNCHANGED created
          ELSE IF line = Fence(<< >>) /\ inBlock
            THEN /\ created' =
                      IF currentFile # << >>
                        THEN Append(created,
                                    [path |-> JoinPath(ScriptsDir,
                                                       currentFile),
                                     name |-> currentFile,
                                     data |-> currentContent,
                                     closed |-> sline])
                        ELSE created
                 /\ inBlock' = FALSE
                 /\ currentFile' = << >>
                 /\ UNCHANGED currentContent
          ELSE IF inBlock
            THEN /\ currentContent' = Append(currentContent, sline)
                 /\ UNCHANGED << currentFile, inBlock, created >>
          ELSE UNCHANGED << currentFile, currentContent, inBlock, created >>
  /\ sline' = sline + 1
  /\ UNCHANGED << progVars, parseVars, reqVars, crawlVars, lines, spc >>

\* the loop is over: return nil
ScriptsReturn ==
  /\ spc = "lines"
  /\ sline > Len(lines)
  /\ spc' = "done"
  /\ UNCHANGED << progVars, parseVars, reqVars, crawlVars, lines, sline,
                  currentFile, currentContent, inBlock, created >>

\* a generated scripts artifact, not written yet
InitScripts ==
  /\ sections = EmptyMap
  /\ disabled = {}
  /\ ir = 1
  /\ diskLock = EmptyMap
  /\ files = EmptyMap
  /\ cacheFiles = EmptyMap
  /\ NoCommandYet
  /\ PlainCommand
  /\ NoParseYet
  /\ NoRequestYet
  /\ DefaultFilenames
  /\ NoCrawlYet
  /\ lines \in ContentChoices
  /\ sline = 0
  /\ currentFile = << >>
  /\ currentContent = << >>
  /\ inBlock = FALSE
  /\ created = << >>
  /\ spc = "idle"

NextScripts ==
  \/ ScriptsBegin
  \/ ScriptsLine
  \/ ScriptsReturn

SpecScripts == InitScripts /\ [][NextScripts]_vars

(* ------------------------------------------------------------------ *)
(* Properties                                                          *)
(* ------------------------------------------------------------------ *)

\* the results the run holds of the artifact id, appended or not yet
ResultsOf(id) ==
  { results[i] : i \in { j \in 1..Len(results) : results[j].id = id } }
    \cup (IF id \in DOMAIN gres THEN { gres[id] } ELSE {})

\* the generation call of a parallel artifact has returned an error
ParallelFailed == \E id \in DOMAIN gres : gres[id].err

\* the run has not touched the lockfile, in memory or on disk
LockUntouched == lockFile = lock0 /\ diskLock = disk0

\* C1: in a run where the generation call of a parallel (enabled,
\* non-dependent) artifact returned an error, the changelog generation call is
\* never issued, no output file is written and no lockfile entry is created
\* or changed, whatever the siblings returned.
C1_DependencyGating ==
  ParallelFailed =>
    /\ calls[ArtifactChangelog] = 0
    /\ ~ \E i \in 1..Len(results) : results[i].id = ArtifactChangelog
    /\ files = files0
    /\ LockUntouched

\* C1 witness: a run that ended in the error of one parallel artifact while a
\* sibling had generated content and the changelog was enabled
C1_Witness ==
  /\ pc = "idle"
  /\ outcome = "err"
  /\ hasChangelog
  /\ ParallelFailed
  /\ \E id \in DOMAIN gres : ~gres[id].err /\ gres[id].content # << >>

\* C2: the changelog's generation is reached (Run stands before it, or its
\* result exists) only when every parallel goroutine has finished and appended
\* its result, the results standing before the changelog's, and none of them
\* carries an error.
C2_ChangelogAfterBarrier ==
  (pc = "dep" \/ ResultsOf(ArtifactChangelog) # {}) =>
    \A id \in Range(parallel) :
      /\ id \in DOMAIN gpc
      /\ gpc[id] = "done"
      /\ \E i \in 1..Len(parallel) :
           results[i].id = id /\ ~results[i].err

\* C2 witness: the changelog's provider call was made after two parallel
\* tasks had appended their results
C2_Witness ==
  /\ Len(parallel) = 2
  /\ calls[ArtifactChangelog] = 1
  /\ Len(results) = 3
  /\ results[3].id = ArtifactChangelog

\* the rank of a phase in the order Resolve-enabled-set, Fingerprint-check,
\* Parallel-generate, Barrier, Dependent-generate, Done
PhaseRank(ph) ==
  CASE ph = "Resolve" -> 1
    [] ph = "Fingerprint" -> 2
    [] ph = "Parallel" -> 3
    [] ph = "Barrier" -> 4
    [] ph = "Dependent" -> 5
    [] OTHER -> 6

\* C3: the phases a run has entered follow the order Resolve-enabled-set,
\* Fingerprint-check, Parallel-generate, Barrier, Dependent-generate, Done,
\* and the fingerprint check is entered only once the enabled set is resolved.
C3_PhaseOrder ==
  /\ \A i, j \in 1..Len(phases) :
       i < j => PhaseRank(phases[i]) < PhaseRank(phases[j])
  /\ "Fingerprint" \in Range(phases) => "Resolve" \in Range(phases)

\* the run has left the cache check (or skipped it)
PastCheck == outcome # "none" /\ pc # "check"

\* a run with neither --force nor --dry-run that has made its cache check
CacheRun == PastCheck /\ ~opts.force /\ ~opts.dryRun

\* the orders the map iterations of one pass over the artifacts may take
IterChoices == [MapRangedArtifacts -> Orderings(DOMAIN inst.sections)]

\* C4: with neither force nor dry-run, the artifacts marked to skip are
\* exactly those whose lockfile entry (as loaded) holds an input hash equal to
\* a hash freshly computed from the serialized IR, the relevant sections and
\* the prompt template (nothing else of the entry is read); an enabled
\* artifact yields a result with empty content and no provider call if and
\* only if it is so marked, and no marked artifact is ever called.
C4_SkipIffHashMatch ==
  CacheRun =>
    /\ \E iters \in IterChoices :
         skipArtifact =
           { id \in ArtifactIDs :
               /\ id \in DOMAIN lock0
               /\ lock0[id].inputHash =
                    InputHashes(specContent, inst.sections, iters)[id] }
    /\ \A id \in skipArtifact : calls[id] = 0
    /\ \A id \in Range(artifacts) :
         \A r \in ResultsOf(id) :
           (calls[id] = 0 /\ r.content = << >> /\ ~r.err)
             <=> id \in skipArtifact

\* C4 witness: a finished run that skipped one enabled artifact, whose entry
\* was recorded with another model, and called the provider for another
C4_Witness ==
  /\ CacheRun
  /\ pc = "idle"
  /\ outcome = "ok"
  /\ \E id \in Range(artifacts) \cap skipArtifact :
       /\ lock0[id].model # opts.model
       /\ \E r \in ResultsOf(id) : r.content = << >>
  /\ \E id \in Range(artifacts) : calls[id] = 1

\* C5: with neither force nor dry-run, when every enabled artifact is a cache
\* hit the run ends at the fingerprint check: it reports success there, has
\* made no provider call and has produced no result.
C5_AllHitsEndAtCheck ==
  (CacheRun /\ Range(EnabledArtifacts(opts.only, inst.disabled))
                 \subseteq skipArtifact) =>
    /\ pc = "idle"
    /\ outcome = "uptodate"
    /\ calls = NoCalls
    /\ results = << >>

\* C6: while the inputs are those the stored entries were computed from (no
\* edit was made), every input hash computed again equals the stored one: the
\* cache check finds every stored entry up to date, and an entry written
\* again keeps its input hash.
C6_HashDeterminism ==
  edits = 0 =>
    /\ CacheRun => DOMAIN lock0 \subseteq skipArtifact
    /\ \A id \in (DOMAIN lockFile) \cap (DOMAIN lock0) :
         lockFile[id].inputHash = lock0[id].inputHash

\* the lockfile, in memory and (where it was saved) on disk, holds for the
\* result r an entry made of a hash of the run's inputs, the hash of r's
\* content and r's model
EntryMatches(r) ==
  /\ r.id \in DOMAIN lockFile
  /\ "SaveLockFile" \notin ioErrs =>
       /\ r.id \in DOMAIN diskLock
       /\ diskLock[r.id] = lockFile[r.id]
  /\ \E iter \in Orderings(DOMAIN inst.sections) :
       lockFile[r.id].inputHash =
         HashInput(specContent, RelevantSections(r.id, inst.sections, iter),
                   SystemPromptFor(r.id))
  /\ lockFile[r.id].outputHash = HashOutput(r.content)
  /\ lockFile[r.id].model = r.model
  /\ lockFile[r.id].updated = now

\* the run ended with "Generation complete"
CompletedRun == pc = "idle" /\ outcome = "ok"

\* C7: from an empty lockfile, a successful first run with all 8 artifacts
\* enabled leaves 8 lockfile entries, and the run that follows it with the
\* same IR and the same instruction text reports all up to date and issues no
\* generation call.
C7_SecondRunUpToDate ==
  /\ (runs = 1 /\ CompletedRun) => Cardinality(DOMAIN diskLock) = 8
  /\ (runs = 2 /\ PastCheck) =>
       /\ Cardinality(DOMAIN lock0) = 8
       /\ pc = "idle"
       /\ outcome = "uptodate"
       /\ calls = NoCalls

EntryChanged(lf0, lf, id) ==
  \/ (id \in DOMAIN lf0) # (id \in DOMAIN lf)
  \/ /\ id \in DOMAIN lf0
     /\ id \in DOMAIN lf
     /\ lf0[id] # lf[id]

\* C9: a run changes the lockfile entry, in memory or on disk, only of an
\* enabled artifact it called the provider for: the entries of the skipped
\* artifacts and of the artifacts outside the enabled set stay as they were.
C9_LockfileFrame ==
  outcome # "none" =>
    \A id \in ArtifactIDs :
      (EntryChanged(lock0, lockFile, id) \/ EntryChanged(disk0, diskLock, id))
        => /\ calls[id] > 0
           /\ id \in Range(artifacts)
           /\ id \notin skipArtifact

\* C9 witness: a completed run that skipped an enabled artifact with a stored
\* entry, left alone the stored entry of a disabled one and changed a third
C9_Witness ==
  /\ CompletedRun
  /\ \E id \in Range(artifacts) \cap skipArtifact : id \in DOMAIN lock0
  /\ \E id \in DOMAIN lock0 : id \notin Range(artifacts)
  /\ \E id \in ArtifactIDs : EntryChanged(disk0, diskLock, id)

\* C10: while a parallel generation task is in flight the lockfile is as it
\* was loaded, in memory and on disk; it differs only once the run has
\* completed: after the barrier, the dependent artifact and the file writes.
C10_LockfileOnlyAfterTasks ==
  /\ (\E id \in DOMAIN gpc : gpc[id] # "done") => LockUntouched
  /\ (outcome # "none" /\ ~LockUntouched) =>
       /\ CompletedRun
       /\ wg = 0
       /\ \A id \in Range(parallel) : gpc[id] = "done"
       /\ "Barrier" \in Range(phases)
       /\ "Done" \in Range(phases)
       /\ \A i \in 1..Len(results) :
            Writable(results[i]) =>
              ArtifactPath(results[i].id) \in DOMAIN files

\* C10 witness: a completed run of two parallel tasks that updated the
\* lockfile
C10_Witness ==
  /\ CompletedRun
  /\ Len(parallel) = 2
  /\ ~LockUntouched

\* the number of results Run holds for the artifact id
CountResults(id) ==
  Cardinality({ i \in 1..Len(results) : results[i].id = id })

\* C11: in every interleaving, once the barrier is passed the results hold
\* exactly one result for each enabled non-dependent artifact and none for an
\* artifact outside the enabled set, and a Run that returns without error
\* returns exactly one result per enabled artifact.
C11_OneResultPerArtifact ==
  /\ "Barrier" \in Range(phases) =>
       /\ \A id \in Range(parallel) : CountResults(id) = 1
       /\ \A id \in ArtifactIDs \ Range(artifacts) : CountResults(id) = 0
  /\ "Done" \in Range(phases) =>
       /\ \A id \in Range(artifacts) : CountResults(id) = 1
       /\ Len(results) = Len(artifacts)

\* C11 witness: Run returned three results, the two parallel ones appended in
\* the reverse of their launch order
C11_Witness ==
  /\ "Done" \in Range(phases)
  /\ Len(parallel) = 2
  /\ Len(results) = 3
  /\ results[1].id = parallel[2]
  /\ results[2].id = parallel[1]

\* C12: in a run that is not a dry run the provider is called exactly once
\* for each enabled, non-skipped, non-dependent artifact, whether or not a
\* sibling's call fails, at most once for the changelog, and never for a
\* skipped or a non-enabled artifact; no call is repeated.
C12_OneCallPerArtifact ==
  (outcome # "none" /\ ~opts.dryRun) =>
    /\ \A id \in ArtifactIDs : calls[id] <= 1
    /\ \A id \in skipArtifact : calls[id] = 0
    /\ \A id \in ArtifactIDs \
                   Range(EnabledArtifacts(opts.only, inst.disabled)) :
         calls[id] = 0
    /\ "Barrier" \in Range(phases) =>
         \A id \in Range(parallel) \ skipArtifact : calls[id] = 1

\* C12 witness: a run of two parallel artifacts ended by the failure of one of
\* them, each called once, the changelog not called
C12_Witness ==
  /\ pc = "idle"
  /\ outcome = "err"
  /\ ~opts.dryRun
  /\ Len(parallel) = 2
  /\ ParallelFailed
  /\ \A id \in Range(parallel) : calls[id] = 1
  /\ hasChangelog
  /\ calls[ArtifactChangelog] = 0

\* the siblings whose content the changelog prompt is to quote
ChangelogSiblings == { ArtifactSkill, ArtifactReference, ArtifactExamples }

\* the user message msg quotes the text content
Quotes(msg, content) ==
  \E k \in 1..Len(msg) : Len(msg[k]) = 3 /\ msg[k][3] = content

\* C13: when the changelog is generated, the request sent to the provider
\* quotes the content generated in this same run for the siblings skill,
\* reference and examples, and the stored content of the previous run for
\* itself and for those siblings.
C13_ChangelogSeesThisRun ==
  calls[ArtifactChangelog] > 0 =>
    /\ \A id \in DOMAIN prevArtifacts :
         prevArtifacts[id] # << >> => Quotes(changelogReq, prevArtifacts[id])
    /\ \A i \in 1..Len(results) :
         (results[i].id \in ChangelogSiblings /\ results[i].content # << >>)
           => Quotes(changelogReq, results[i].content)

\* the changelog of this run as it is to be left: the generated entry ahead of
\* the changelog body loaded before the run
MergedChangelog ==
  PrependChangelogEntry(Generated(ArtifactChangelog, now),
                        ExistingChangelog(prevArtifacts))

\* the run generated the changelog with content, wrote its files and completed
ChangelogWritten ==
  /\ CompletedRun
  /\ calls[ArtifactChangelog] = 1
  /\ HasChangelogEntry(results)

\* C14: when the changelog is generated with content in a run that writes
\* files, the content left in the changelog file and the content hashed into
\* the lockfile's output hash are the new entry prepended ahead of the previous
\* changelog body, not the raw generated text.
C14_ChangelogMerged ==
  ChangelogWritten =>
    /\ files[ArtifactPath(ArtifactChangelog)] = MergedChangelog
    /\ lockFile[ArtifactChangelog].outputHash = HashOutput(MergedChangelog)

\* nothing on disk differs from the start of the run: output directory,
\* lockfile, cache
DiskUntouched ==
  /\ files = files0
  /\ diskLock = disk0
  /\ cacheFiles = cache0

\* r is the dry-run placeholder of its artifact, with the estimated size of
\* the request that was not sent
IsPlaceholder(r) ==
  /\ ~r.err
  /\ ~r.resp
  /\ \E iter \in Orderings(DOMAIN inst.sections) :
       r.content =
         << << "dry", r.id,
               EstimateTokens(SystemPromptFor(r.id),
                              UserMessage(r.id, prevArtifacts, inst.sections,
                                          specContent, iter)) >> >>

\* C15: in dry-run mode the provider is never called, the fingerprint check
\* skips nothing, every result is a placeholder with the estimated input
\* size, the run ends with one placeholder per enabled artifact (the
\* changelog included, cached or not), and neither an output file nor a
\* lockfile or cache entry is written.
C15_DryRunWritesNothing ==
  (outcome # "none" /\ opts.dryRun) =>
    /\ calls = NoCalls
    /\ skipArtifact = {}
    /\ DiskUntouched
    /\ lockFile = lock0
    /\ \A id \in ArtifactIDs : \A r \in ResultsOf(id) : IsPlaceholder(r)
    /\ pc = "idle" =>
         /\ outcome = "dry"
         /\ \A id \in Range(EnabledArtifacts(opts.only, inst.disabled)) :
              CountResults(id) = 1

\* C15 witness: a dry run over a project whose lockfile has an entry for
\* every enabled artifact ended with three placeholders, the changelog's
\* among them
C15_Witness ==
  /\ pc = "idle"
  /\ outcome = "dry"
  /\ opts.dryRun
  /\ Range(artifacts) \subseteq DOMAIN lock0
  /\ Len(results) = 3
  /\ results[3].id = ArtifactChangelog
  /\ IsPlaceholder(results[3])

\* the run was forced and is not a dry run
ForcedRun == outcome # "none" /\ opts.force /\ ~opts.dryRun

\* C16, as claimed: with the force flag set and not dry-run, the fingerprint
\* check is bypassed, every enabled artifact is generated by a provider call
\* whatever the lockfile contains, and the lockfile entry of every artifact
\* whose call succeeded is overwritten.
C16_ForceRegeneratesAll ==
  ForcedRun =>
    /\ skipArtifact = {}
    /\ pc = "idle" =>
         \A id \in Range(EnabledArtifacts(opts.only, inst.disabled)) :
           /\ calls[id] = 1
           /\ \A r \in ResultsOf(id) : r.resp => EntryMatches(r)

\* C16, amended: with the force flag set and not dry-run, the fingerprint
\* check is bypassed and nothing is skipped whatever the lockfile contains:
\* past the barrier every enabled non-dependent artifact has been generated by
\* a provider call, and the changelog too when Run returns without error;
\* when the run completes (no error, not diff mode) the lockfile entry of
\* every artifact whose response has content is overwritten.
C16_ForceBypassesCheck ==
  ForcedRun =>
    /\ skipArtifact = {}
    /\ "Fingerprint" \notin Range(phases)
    /\ "Barrier" \in Range(phases) =>
         \A id \in Range(parallel) : calls[id] = 1
    /\ "Done" \in Range(phases) =>
         \A id \in Range(artifacts) : calls[id] = 1
    /\ CompletedRun =>
         \A i \in 1..Len(results) :
           (results[i].resp /\ results[i].content # << >>)
             => EntryMatches(results[i])

\* C16 witness: a forced run over a lockfile holding an entry for every
\* enabled artifact called the provider for each and replaced each entry
C16_Witness ==
  /\ ForcedRun
  /\ CompletedRun
  /\ Len(artifacts) = 3
  /\ \A id \in Range(artifacts) :
       /\ id \in DOMAIN lock0
       /\ calls[id] = 1
       /\ lockFile[id] # lock0[id]

\* C17: with the diff flag set a generate run writes no artifact file and
\* leaves the output directory, the lockfile and the cache as they were; it
\* ends with a report that names only artifacts generated in this run, each
\* as a new file when it had no file before the run (the scripts directory is
\* never read as a file) and as changed otherwise.
C17_DiffWritesNothing ==
  (outcome # "none" /\ opts.diff) =>
    /\ DiskUntouched
    /\ lockFile = lock0
    /\ pc \notin { "write", "chlog", "update" }
    /\ outcome # "ok"
    /\ (pc = "idle" /\ outcome = "diff") =>
         \A e \in DiffReport(files, results) :
           \E id \in Range(artifacts) :
             /\ calls[id] = 1
             /\ e[1] = ArtifactPath(id)
             /\ e[2] = IF /\ ArtifactPath(id) \in DOMAIN files0
                            /\ id # ArtifactScripts
                         THEN "changed" ELSE "new file"

\* C17 witness: a diff run over an existing output directory generated three
\* artifacts and reports them as changed
C17_Witness ==
  /\ pc = "idle"
  /\ outcome = "diff"
  /\ files0 # EmptyMap
  /\ lock0 # EmptyMap
  /\ Cardinality(DiffReport(files, results)) = 3
  /\ \A e \in DiffReport(files, results) : e[2] = "changed"

\* a generation call, an artifact write, the changelog rewrite or the
\* persistence of the cache or of the lockfile failed in the run that ended
SomethingFailed ==
  \/ \E i \in 1..Len(results) : results[i].err
  \/ \E id \in DOMAIN gres : gres[id].err
  \/ ioErrs # {}
  \/ outcome = "err"

\* C18: a generate command ends in failure whenever a generation call, an
\* artifact file write (the rewrite of the merged changelog included) or the
\* persistence of the lockfile or of the cache failed.
C18_FailureIsReported ==
  (pc = "idle" /\ outcome # "none" /\ SomethingFailed) => outcome = "err"

\* C19: when a generate run ends in a fatal error, a write error after other
\* artifacts were written included, the output directory is as it was before
\* the run.
C19_NoPartialOutput ==
  (pc = "idle" /\ outcome = "err") => files = files0

\* C20: when the context of the run is cancelled before all parallel tasks
\* have completed, the run ends in failure as for a generation error: the
\* changelog is not generated, no file is written and no lockfile entry is
\* updated.
C20_CancelFailsRun ==
  (cancelled /\ pc = "idle") =>
    /\ outcome = "err"
    /\ \A r \in ResultsOf(ArtifactChangelog) : r.content = << >>
    /\ files = files0
    /\ LockUntouched

(* ------------------------------------------------------------------ *)
(* The lockfile as a whole file                                        *)
(* ------------------------------------------------------------------ *)

\* C22: in each generate run the lockfile is loaded once, at the start, and
\* saved at most once, at the end of a run that completed: it is not saved
\* during generation, nor by a run that ends in an error, as a dry run, in
\* diff mode or on the all-up-to-date exit, and until it is saved the file on
\* disk is as it was loaded.  A completed run that changed an entry has
\* saved the lockfile with that entry.
C22_LockfileLoadedOnceSavedOnce ==
  outcome # "none" =>
    /\ lockIO \in { << "load" >>, << "load", "save" >> }
    /\ lock0 = disk0
    /\ lockIO = << "load" >> => diskLock = disk0
    /\ lockIO = << "load", "save" >> => CompletedRun /\ diskLock = lockFile
    /\ (pc # "idle" \/ outcome \in { "err", "dry", "diff", "uptodate" })
         => lockIO = << "load" >>
    /\ (CompletedRun /\ \E id \in ArtifactIDs :
                          EntryChanged(lock0, lockFile, id))
         => lockIO = << "load", "save" >>

\* C22 witness: a completed run that changed an entry and saved the lockfile
C22_Witness ==
  /\ CompletedRun
  /\ lockIO = << "load", "save" >>
  /\ \E id \in ArtifactIDs : EntryChanged(disk0, diskLock, id)

(* ------------------------------------------------------------------ *)
(* The enabled set                                                     *)
(* ------------------------------------------------------------------ *)

\* the position of id in the fixed artifact sequence
IndexOf(id) == CHOOSE k \in 1..Len(AllArtifacts) : AllArtifacts[k] = id

\* the allow-list entries of the running command, trimmed and lower-cased
AllowSet == { NormalizeOnly(opts.only[i]) : i \in 1..Len(opts.only) }

\* C27: the enabled set Run works on is, when an allow-list is given, the
\* artifacts whose id equals some entry of it after trimming and lower-casing,
\* whatever the toggles say, and otherwise the artifacts whose toggle is not
\* disabled; it is ordered as the fixed sequence and holds no artifact twice.
C27_EnabledSet ==
  "Resolve" \in Range(phases) =>
    /\ Range(artifacts) =
         IF opts.only # << >>
           THEN { id \in ArtifactIDs : id \in AllowSet }
           ELSE ArtifactIDs \ inst.disabled
    /\ \A i, j \in 1..Len(artifacts) :
         i < j => IndexOf(artifacts[i]) < IndexOf(artifacts[j])

\* C27 witness: an allow-list that names llms before skill, skill twice in
\* two spellings while its toggle is disabled, resolved to skill, llms
C27_Witness ==
  /\ "Resolve" \in Range(phases)
  /\ opts.only = << "LLMS", " Skill ", "skill" >>
  /\ ArtifactSkill \in inst.disabled
  /\ artifacts = << ArtifactSkill, ArtifactLlms >>

(* ------------------------------------------------------------------ *)
(* The plugin registry                                                 *)
(* ------------------------------------------------------------------ *)

\* ProcessSources has returned an error
ReturnedError == rret.err # << >>

\* the plugin that comes first in the registry among those accepting s
FirstAccepting(s) ==
  CHOOSE p \in Range(Plugins) :
    \E k \in 1..Len(Plugins) :
      /\ Plugins[k] = p
      /\ PluginDetect(p, s)
      /\ \A j \in 1..(k - 1) : ~PluginDetect(Plugins[j], s)

\* the Fetch, Parse and Validate calls made for source i, in order
CallsFor(i) == SelectSeq(rlog, LAMBDA e : e[3] = i /\ e[1] # "detect")

\* C21: a fatal error of source processing identifies the spec source that
\* failed: the error ProcessSources returns holds the path, URL, command or
\* binary of the source it stopped at.  (The other half of the claim, that a
\* generation error names the artifact id, is the "generating %s" wrapping of
\* Run.)
C21_ErrorNamesSource ==
  ReturnedError => Locator(sources[ri]) \in Range(rret.err)

\* C28: for each spec source only the plugin that comes first in
\* registration order among those whose Detect accepts it is called, and its
\* calls are Fetch, then Parse, then Validate.
C28_FirstMatchOnly ==
  \A i \in 1..Len(sources) :
    LET cs == CallsFor(i)
    IN /\ Len(cs) <= 3
       /\ \A k \in 1..Len(cs) :
            /\ cs[k][1] = << "fetch", "parse", "validate" >>[k]
            /\ Accepting(sources[i]) # {}
            /\ cs[k][2] = FirstAccepting(sources[i])

\* C28 witness: a source that the OpenAPI and the codebase plugin both accept
\* went through Fetch, Parse and Validate of the OpenAPI plugin
C28_Witness ==
  \E i \in 1..Len(sources) :
    /\ OpenAPIDetect(sources[i])
    /\ CodebaseDetect(sources[i])
    /\ CallsFor(i) = << << "fetch", "openapi", i >>,
                        << "parse", "openapi", i >>,
                        << "validate", "openapi", i >> >>

\* C29: at most one registered plugin accepts a spec source the registry was
\* asked about, so the plugin selected does not depend on the order of
\* registration.
C29_DetectExclusive ==
  \A k \in 1..Len(rlog) :
    rlog[k][1] = "detect" =>
      Cardinality(Accepting(sources[rlog[k][3]])) <= 1

\* C30: when a source matches no plugin or its Fetch or Parse fails,
\* ProcessSources returns the error with no IR and no warnings, the failing
\* call is the last plugin call made, the source is not merged, and the
\* generate run ends in failure without loading the lockfile, entering the
\* pipeline or making a generation call.
C30_FailFast ==
  ReturnedError =>
    /\ rret.ir = << "nil" >>
    /\ rret.warnings = << >>
    /\ ri \in 1..Len(sources)
    /\ rlog[Len(rlog)][3] = ri
    /\ rlog[Len(rlog)][1] \in { "detect", "fetch", "parse" }
    /\ \A k \in 1..Len(rlog) : rlog[k][3] <= ri
    /\ ri \notin Range(merged)
    /\ pc = "idle"
    /\ calls = NoCalls
    /\ lockIO = << >>
    /\ phases = << >>
    /\ rpc = "idle" => outcome = "err"

\* C30 witness: of two sources the first failed to parse after a warning-free
\* fetch, and the generate run has ended in failure
C30_Witness ==
  /\ ReturnedError
  /\ rpc = "idle"
  /\ outcome = "err"
  /\ Len(sources) = 2
  /\ ri = 1
  /\ rlog[Len(rlog)] = << "parse", rplugin, 1 >>

(* ------------------------------------------------------------------ *)
(* Drift detection                                                     *)
(* ------------------------------------------------------------------ *)

\* the drift loop of the diff command has ended
HashLoopDone == dpc \in { "files", "exit", "done" }

\* the artifact ids the diff command reported as drifted
DriftedIDs ==
  { dreport[k][2] : k \in { j \in 1..Len(dreport) : dreport[j][1] = "DRIFTED" } }

\* what the --against loop printed for the path p
FileReports(p) ==
  { dreport[k][1] : k \in { j \in 1..Len(dreport) :
                               /\ dreport[j][1] # "DRIFTED"
                               /\ dreport[j][2] = p } }

\* the hash the diff command computed for some artifact is not the stored one
HashDrift ==
  \E id \in ArtifactIDs : ~IsUpToDate(dlock, id, dhash[id])

\* some artifact output path holds a file in one directory only, or files of
\* different bytes
FileDrift ==
  /\ againstDir # NoDir
  /\ \E id \in ArtifactIDs :
       \/ Readable(files, id) # Readable(againstDir.files, id)
       \/ /\ Readable(files, id)
          /\ Readable(againstDir.files, id)
          /\ files[ArtifactPath(id)] # againstDir.files[ArtifactPath(id)]

\* C23: a drift query reports as drifted exactly the enabled artifacts whose
\* freshly computed input hash disagrees with the stored lockfile entry.
C23_DriftedAreTheStaleEnabled ==
  HashLoopDone =>
    DriftedIDs =
      { id \in Range(EnabledArtifacts(<< >>, disabled)) :
          ~IsUpToDate(dlock, id, dhash[id]) }

\* C24: a diff command, with or without a comparison directory and whatever
\* it finds, makes no generation call and leaves the lockfile, the output
\* files and the cache as they were when it began.
C24_DiffMutatesNothing ==
  dpc # "idle" =>
    /\ diskLock = dstart.lock
    /\ dlock = dstart.lock
    /\ files = dstart.files
    /\ cacheFiles = dstart.cache
    /\ calls = dstart.calls

\* C24 witness: a diff command with a comparison directory over a generated
\* project has exited with drift
C24_Witness ==
  /\ dpc = "done"
  /\ dexit = 1
  /\ againstDir # NoDir
  /\ diskLock # EmptyMap
  /\ files # EmptyMap

C26_FileComparison ==
  dpc \in { "exit", "done" } =>
    /\ againstDir = NoDir =>
         \A id \in ArtifactIDs : FileReports(ArtifactPath(id)) = {}
    /\ againstDir # NoDir =>
         \A id \in ArtifactIDs :
           LET p == ArtifactPath(id)
               here == Readable(files, id)
               there == Readable(againstDir.files, id)
           IN /\ FileReports(p) =
                   IF here /\ ~there THEN { "ADDED" }
                   ELSE IF ~here /\ there THEN { "REMOVED" }
                   ELSE IF here /\ there /\ files[p] # againstDir.files[p]
                     THEN { "CHANGED" }
                     ELSE {}
              /\ FileReports(p) # {} => drifted

\* C26 witness: one comparison reported an added, a removed and a changed
\* file and passed over a file of equal bytes and a path absent from both
C26_Witness ==
  /\ dpc = "done"
  /\ againstDir # NoDir
  /\ FileReports(ArtifactPath(ArtifactChangelog)) = { "ADDED" }
  /\ FileReports(ArtifactPath(ArtifactLlmsAPI)) = { "REMOVED" }
  /\ FileReports(ArtifactPath(ArtifactSkill)) = { "CHANGED" }
  /\ Readable(files, ArtifactLlms)
  /\ Readable(againstDir.files, ArtifactLlms)
  /\ FileReports(ArtifactPath(ArtifactLlms)) = {}
  /\ ~Readable(files, ArtifactReference)
  /\ ~Readable(againstDir.files, ArtifactReference)

(* ------------------------------------------------------------------ *)
(* The merged IR                                                       *)
(* ------------------------------------------------------------------ *)

\* ProcessSources has returned the merged IR of all its sources
ReturnedIR == rpc = "returned" /\ rret.err = << >>

\* the fragment of the i-th source, parsed by the plugin selected for it
FragmentOf(i) == Parsed(FirstAccepting(sources[i]), sources[i], i)

\* the operations of the sources 1..n one after the other
RECURSIVE OperationsUpTo(_)
OperationsUpTo(n) ==
  IF n = 0 THEN << >>
  ELSE OperationsUpTo(n - 1) \o FragmentOf(n).Operations

\* the sources whose fragment sets the metadata key k
Setters(k) ==
  { i \in 1..Len(sources) : k \in DOMAIN FragmentOf(i).Metadata }

\* C31: when every source was processed, the operations of the merged IR are
\* the operations of the first source, then those of the second, and so on
\* in the order of the source list, each source's own order kept.
C31_OperationsInSourceOrder ==
  ReturnedIR => mergedIR.Operations = OperationsUpTo(Len(sources))

\* C31 witness: two sources with operations were merged
C31_Witness ==
  /\ ReturnedIR
  /\ Len(sources) = 2
  /\ FragmentOf(1).Operations # << >>
  /\ FragmentOf(2).Operations # << >>
  /\ FragmentOf(1).Operations # FragmentOf(2).Operations

\* C32: when every source was processed, the merged IR holds exactly the
\* metadata keys some source sets, each with the value of the last source in
\* the list that sets it.
C32_MetadataLastWins ==
  ReturnedIR =>
    /\ DOMAIN mergedIR.Metadata =
         { k \in { "title", "description", "version", "binary", "type",
                   "root" } : Setters(k) # {} }
    /\ \A k \in DOMAIN mergedIR.Metadata :
         mergedIR.Metadata[k] = FragmentOf(Greatest(Setters(k))).Metadata[k]

\* C32 witness: two sources set the key "type" to different values, and a
\* key set by the first only is kept
C32_Witness ==
  /\ ReturnedIR
  /\ Setters("type") = { 1, 2 }
  /\ FragmentOf(1).Metadata["type"] # FragmentOf(2).Metadata["type"]
  /\ mergedIR.Metadata["type"] = FragmentOf(2).Metadata["type"]
  /\ Setters("binary") = { 1 }
  /\ mergedIR.Metadata["binary"] = FragmentOf(1).Metadata["binary"]

\* C33: two calls of the same plugin's Parse on the same raw input return the
\* same IR: the same operations, request and response descriptors, groups
\* and detected stack, in the same order.
C33_ParseDeterministic ==
  \A i, j \in 1..Len(parses) : parses[i] = parses[j]

\* C34: when the cache check takes the artifact for up to date, the request
\* that would be sent for it now (system prompt and user message) is the
\* request that produced the lockfile entry.
C34_HitMeansSameRequest ==
  (checked # << >> /\ checked[1].hit) =>
    checked[1].request = stored[1].request

\* the name/body pairs that entered the input hash
HashedSections(h) == { h[i] : i \in 1..Len(h) }

\* the name/body pairs of the instruction parts of a user message
SentSections(m) ==
  { << m[i][2], m[i][3] >> :
      i \in { j \in 1..Len(m) : m[j][1] = "Instructions" } }

\* C35: for every artifact, the instruction sections whose name and body
\* enter the input hash are the instruction sections of the user message of
\* its request, at the generation and at the cache check alike.
C35_HashedSectionsAreSentSections ==
  /\ stored # << >> =>
       HashedSections(stored[1].hashed) =
         SentSections(stored[1].request.user)
  /\ checked # << >> =>
       HashedSections(checked[1].hashed) =
         SentSections(checked[1].request.user)

\* C35 witness: the cache check of the examples artifact hashed the one of
\* two sections that is relevant to it
C35_Witness ==
  /\ checked # << >>
  /\ reqID = ArtifactExamples
  /\ DOMAIN sections = { "Examples", "Notes" }
  /\ HashedSections(checked[1].hashed) = { << "Examples", 1 >> }

\* the results of the run in the order of AllArtifacts
InArtifactOrder(rs) ==
  LET ids == FilterSeq(AllArtifacts, { rs[i].id : i \in 1..Len(rs) })
  IN [i \in 1..Len(ids) |-> CHOOSE r \in Range(rs) : r.id = ids[i]]

\* C36: after a successful run every written file and every lockfile entry
\* is what it would be had the parallel tasks completed in the order of
\* AllArtifacts: the final state does not depend on the completion order,
\* custom filenames that share a path included.
C36_FinalStateOrderFree ==
  (pc = "idle" /\ outcome = "ok") =>
    /\ files = WriteResultsNamed(files0, InArtifactOrder(results), filenames)
    /\ DOMAIN lockFile =
         { results[i].id : i \in { j \in 1..Len(results) :
                                     Writable(results[j]) } }
    /\ \A i \in 1..Len(results) :
         Writable(results[i]) =>
           lockFile[results[i].id].outputHash =
             HashOutput(results[i].content)

\* C37: a diff command that follows a successful generate command of the
\* same project at once, with no comparison directory, reports no drifted
\* artifact and exits with status 0.
C37_NoDriftAfterRun ==
  (dpc = "done" /\ outcome = "ok" /\ opts.only = << >>) =>
    /\ dexit = 0
    /\ dreport = << >>

\* Pipeline.Run has been entered and has not returned
InRun == pc \in { "run", "launch", "wait", "dep" }

\* Pipeline.Run has returned its results, with or without an error
RunReturned == pc = "post" \/ (pc = "idle" /\ outcome = "err")

\* C38: with goroutines that are scheduled and provider calls that return,
\* every call of Run returns, with results or with an error: the barrier is
\* released and no goroutine waits for the mutex for ever.
C38_RunTerminates == InRun ~> RunReturned

\* C38 witness: Run returned after three goroutines appended their results
\* one after the other
C38_Witness ==
  /\ pc = "post"
  /\ Len(parallel) = 3
  /\ \A id \in Range(parallel) : gpc[id] = "done"
  /\ wg = 0
  /\ mu = "free"

\* q is the path of a subcommand of the command at p
ChildPath(p, q) == Len(q) = Len(p) + 1 /\ SubSeq(q, 1, Len(p)) = p

\* what the crawl has queried so far: the root first, no path longer than
\* maxDepth, no path with an excluded subcommand, no subcommand of a command
\* whose help call failed
CrawlWithinLimits ==
  /\ crawled # << >> => crawled[1].commandPath = << >>
  /\ \A i \in 1..Len(crawled) :
       /\ Len(crawled[i].commandPath) <=
            (IF crawlSrc.MaxDepth <= 0 THEN 3 ELSE crawlSrc.MaxDepth)
       /\ Range(crawled[i].commandPath) \cap crawlSrc.Exclude = {}
       /\ crawled[i].failed =>
            \A j \in 1..Len(crawled) :
              ~ChildPath(crawled[i].commandPath, crawled[j].commandPath)

\* C39: the crawl of a binary whose help calls return stays within these
\* limits and comes to its end.
C39_CrawlTerminatesWithinLimits ==
  /\ []CrawlWithinLimits
  /\ <>(cpc = "done")

\* C39 witness: the crawl of the binary that lists the same subcommands under
\* every command ended at the default depth after fifteen help calls
C39_Witness ==
  /\ cpc = "done"
  /\ helpTree = "nested"
  /\ crawlSrc = [MaxDepth |-> 0, Exclude |-> {}]
  /\ Len(crawled) = 15

\* the path lies below the scripts directory
InsideScriptsDir(path) ==
  /\ Len(path) > 3
  /\ SubSeq(path, 1, 3) = << "out", "tool", "scripts" >>

\* the file f was cut out of a block that a fence with a non-empty name
\* opened and the bare fence at f.closed closed
FromClosedNamedBlock(f) ==
  \E open \in 1..(f.closed - 1) :
    /\ lines[open].fence
    /\ lines[open].header = f.name
    /\ f.name # << >>
    /\ lines[f.closed] = [fence |-> TRUE, header |-> << >>]
    /\ \A k \in (open + 1)..(f.closed - 1) :
         lines[k] # [fence |-> TRUE, header |-> << >>]

\* C40: every file writeScripts creates lies inside the scripts directory
\* under the output directory, whatever the names in the fence headers, and
\* is cut out of a fenced block that is closed and carries a non-empty name.
C40_ScriptsStayInside ==
  \A i \in 1..Len(created) :
    /\ InsideScriptsDir(created[i].path)
    /\ FromClosedNamedBlock(created[i])

====
